---- MODULE Spec2Model ----
(***************************************************************************)
(* Whack-a-Zombie: the Zombie lifecycle timer (src/zombie.py, src/waz.py,  *)
(* src/BTL1/whack_a_zombie.py, src/src/zombie.py: the four copies have     *)
(* the same mark_hit / start_attack / update) and the waz.py game loop.    *)
(*                                                                         *)
(* The specifications share the variables:                                 *)
(*   SpecZombie   one Zombie object driven by any interleaving of          *)
(*                mark_hit, start_attack and update calls;                 *)
(*   SpecGame     the waz.py Game loop: sample the clock, handle the       *)
(*                frame's events, update / prune / spawn;                  *)
(*   SpecSchedule Spawner.schedule_next for drawn times and levels;        *)
(*   SpecSpawner  the waz.py Spawner.maybe_spawn for drawn levels;         *)
(*   SpecBrain    one Brain pickup (src/brain.py);                         *)
(*   SpecOcc      the occupancy-tracking Spawner (src/spawner.py);         *)
(*   SpecHitTest  Zombie.contains_point around the sprite rectangle;       *)
(*   SpecMain     the loop of the multi-zombie game (src/main.py);         *)
(*   SpecLog      clicks of the waz.py game with a log that may fail;      *)
(*   SpecLive     the waz.py loop iterating fairly;                        *)
(*   SpecSpacing  maybe_spawn calls, removals and resets over a fine clock;*)
(*   SpecClicks   one of the two games, waz.py or main.py, being played;    *)
(*   SpecLevel    the waz.py loop picked up around the level thresholds;    *)
(*   SpecHealth   the main.py loop picked up at the levels of each zombie   *)
(*                type;                                                     *)
(*   SpecBatch    the main.py loop with the events of an iteration handled  *)
(*                as a batch.                                               *)
(* Times are integer milliseconds.  An Optional[int] timestamp is the      *)
(* empty sequence (None) or a one-element sequence <<t>>.                  *)
(***************************************************************************)
EXTENDS Integers, Sequences, FiniteSets, TLC

VARIABLES
    \* ---- SpecZombie: one Zombie object and the last call made on it
    z,              \* the Zombie's fields
    clock,          \* the now_ms argument of the last call
    op,             \* the last call: "new", "mark_hit", "start_attack", "update"
    ret,            \* what the last update call returned (attack_occurred)
    trues,          \* history: how many update calls have returned True
    \* ---- SpecGame: the fields of Game and of its Spawner (waz.py)
    now,            \* the loop iteration's pygame.time.get_ticks() sample
    pc,             \* "top": between iterations; "events": inside the event loop
                    \* ("main" in SpecClicks when the game run is main.py's)
    zombies,        \* Game.zombies, a sequence of Zombie records
    hits,           \* Game.hits
    misses,         \* Game.misses
    lives,          \* Game.lives
    level,          \* Game.level
    zombies_killed, \* Game.zombies_killed
    game_over,      \* Game.game_over
    paused,         \* Game.paused
    next_spawn_at,  \* Spawner.next_spawn_at
    \* ---- SpecGame: history variables (not program state)
    completed,      \* zombies whose attack completed since the last reset
    credited,       \* per live zombie: the clicks counted as a hit on it
    paused_frames,  \* iterations begun since the game was last running
    last,           \* history: the last step (a handled click, a reset, ...)
    \* ---- the occupancy-tracking Spawner (spawner.py) and the Brain pickup
    brains,         \* the live Brain records (the `brains` list)
    next_brain_check_at, \* Spawner.next_brain_check_at
    \* ---- the multi-zombie game of main.py
    main,           \* Game's fields and the locals of Game.start, as a record
    \* ---- GameLogger (waz.py, src/logger.py)
    log_file        \* the rows appended to the log file after its header

zvars == <<z, clock, op, ret, trues>>
gvars == <<now, pc, zombies, hits, misses, lives, level, zombies_killed,
           game_over, paused, next_spawn_at, completed, credited, paused_frames,
           last>>
xvars == <<brains, next_brain_check_at, main, log_file>>
vars == <<z, clock, op, ret, trues, now, pc, zombies, hits, misses, lives,
          level, zombies_killed, game_over, paused, next_spawn_at, completed,
          credited, paused_frames, last, brains, next_brain_check_at, main,
          log_file>>

-----------------------------------------------------------------------------
(* Program constants *)

ATTACK_ANIM_MS == 300
SPAWN_ANIM_MS == 150
DESPAWN_ANIM_MS == 250

-----------------------------------------------------------------------------
(* Zombie *)

None == <<>>
Some(t) == <<t>>
Val(o) == o[1]

\* Zombie.__init__
NewZombie(spawn, born_at_ms, lifetime_ms) ==
    [spawn |-> spawn, born_at |-> born_at_ms, lifetime |-> lifetime_ms,
     dead |-> FALSE, hit |-> FALSE, hit_time |-> None, despawn_start |-> None,
     attacking |-> FALSE, attack_start |-> None, has_dealt_damage |-> FALSE]

\* mark_hit without the `self.hit` part of its guard
MarkHitNoHitGuard(zb, now_ms) ==
    IF zb.dead \/ zb.attacking
    THEN zb
    ELSE [zb EXCEPT !.hit = TRUE, !.hit_time = Some(now_ms),
                    !.despawn_start = Some(now_ms)]

\* mark_hit without the `self.attacking` part of its guard
MarkHitNoAttackGuard(zb, now_ms) ==
    IF zb.hit \/ zb.dead
    THEN zb
    ELSE [zb EXCEPT !.hit = TRUE, !.hit_time = Some(now_ms),
                    !.despawn_start = Some(now_ms)]

\* Zombie.mark_hit
MarkHit(zb, now_ms) ==
    IF zb.hit \/ zb.dead \/ zb.attacking
    THEN zb
    ELSE [zb EXCEPT !.hit = TRUE, !.hit_time = Some(now_ms),
                    !.despawn_start = Some(now_ms)]

\* start_attack without the `self.hit` part of its guard
StartAttackNoHitGuard(zb, now_ms) ==
    IF zb.dead \/ zb.attacking
    THEN zb
    ELSE [zb EXCEPT !.attacking = TRUE, !.attack_start = Some(now_ms)]

\* start_attack with no guard at all
StartAttackUnguarded(zb, now_ms) ==
    [zb EXCEPT !.attacking = TRUE, !.attack_start = Some(now_ms)]

\* Zombie.start_attack
StartAttack(zb, now_ms) ==
    IF zb.hit \/ zb.dead \/ zb.attacking
    THEN zb
    ELSE [zb EXCEPT !.attacking = TRUE, !.attack_start = Some(now_ms)]

\* Zombie.is_attacking
IsAttacking(zb) == zb.attacking /\ ~zb.hit /\ ~zb.dead

\* is_active for a list comprehension that drops nothing
IsActiveKeepsDead(zb) == TRUE

\* Zombie.is_active
IsActive(zb) == ~zb.dead

\* The three `if` blocks of Zombie.update, in the order of the code; each
\* reads the fields as the block before it left them.
UpdateStartAttack(zb, now_ms) ==
    IF /\ ~zb.hit
       /\ ~zb.attacking
       /\ now_ms - zb.born_at >= zb.lifetime
       /\ zb.despawn_start = None
    THEN StartAttack(zb, now_ms)
    ELSE zb

UpdateAttackDone(zb, now_ms) ==
    /\ zb.attacking
    /\ zb.attack_start # None
    /\ ~zb.has_dealt_damage
    /\ now_ms - Val(zb.attack_start) >= ATTACK_ANIM_MS

\* the third block of update never finding the despawn finished
UpdateDespawnNeverDone(zb, now_ms) == FALSE

UpdateDespawnDone(zb, now_ms) ==
    /\ zb.despawn_start # None
    /\ now_ms - Val(zb.despawn_start) >= DESPAWN_ANIM_MS

\* update with `>` where the code has `>=` on the lifetime
UpdateStrictLifetime(zb, now_ms) ==
    LET z1 == IF /\ ~zb.hit
                 /\ ~zb.attacking
                 /\ now_ms - zb.born_at > zb.lifetime
                 /\ zb.despawn_start = None
              THEN StartAttack(zb, now_ms)
              ELSE zb
        occurred == UpdateAttackDone(z1, now_ms)
        z2 == IF occurred
              THEN [z1 EXCEPT !.has_dealt_damage = TRUE,
                              !.despawn_start = Some(now_ms)]
              ELSE z1
        z3 == IF UpdateDespawnDone(z2, now_ms)
              THEN [z2 EXCEPT !.dead = TRUE]
              ELSE z2
    IN  [zombie |-> z3, attack_occurred |-> occurred]

\* update without the has_dealt_damage guard of its second block
UpdateNoDamageGuard(zb, now_ms) ==
    LET z1 == UpdateStartAttack(zb, now_ms)
        occurred == /\ z1.attacking
                    /\ z1.attack_start # None
                    /\ now_ms - Val(z1.attack_start) >= ATTACK_ANIM_MS
        z2 == IF occurred
              THEN [z1 EXCEPT !.has_dealt_damage = TRUE,
                              !.despawn_start = Some(now_ms)]
              ELSE z1
        z3 == IF UpdateDespawnDone(z2, now_ms)
              THEN [z2 EXCEPT !.dead = TRUE]
              ELSE z2
    IN  [zombie |-> z3, attack_occurred |-> occurred]

\* update dating the despawn from the end of the attack animation instead of now
UpdateBackdatedDespawn(zb, now_ms) ==
    LET z1 == UpdateStartAttack(zb, now_ms)
        occurred == UpdateAttackDone(z1, now_ms)
        z2 == IF occurred
              THEN [z1 EXCEPT !.has_dealt_damage = TRUE,
                              !.despawn_start =
                                  Some(Val(z1.attack_start) + ATTACK_ANIM_MS)]
              ELSE z1
        z3 == IF UpdateDespawnDone(z2, now_ms)
              THEN [z2 EXCEPT !.dead = TRUE]
              ELSE z2
    IN  [zombie |-> z3, attack_occurred |-> occurred]

\* Zombie.update: the zombie after the call and the value returned
Update(zb, now_ms) ==
    LET z1 == UpdateStartAttack(zb, now_ms)
        occurred == UpdateAttackDone(z1, now_ms)
        z2 == IF occurred
              THEN [z1 EXCEPT !.has_dealt_damage = TRUE,
                              !.despawn_start = Some(now_ms)]
              ELSE z1
        z3 == IF UpdateDespawnDone(z2, now_ms)
              THEN [z2 EXCEPT !.dead = TRUE]
              ELSE z2
    IN  [zombie |-> z3, attack_occurred |-> occurred]

-----------------------------------------------------------------------------
(* SpecZombie: one Zombie, any interleaving of its three operations *)

BornTimes == {1000}
Lifetimes == {500, 800, 801}
\* How far the clock moves between two calls
Steps == {0, 50, 250, 300, 800}
\* Calls are made until this long after the zombie's lifetime has elapsed
MaxAfter == 800

\* The times a call may pass: the clock never runs backwards while the
\* zombie is alive; a dead zombie is also called with an earlier time.
CallTimes ==
    {t \in {clock + d : d \in Steps} : t <= z.born_at + z.lifetime + MaxAfter}
    \cup (IF z.dead THEN {z.born_at} ELSE {})

\* Game.__init__ / Game.reset_game and Spawner.__init__ (waz.py)
INITIAL_LIVES == 3

\* ---- main.py and Classes/GameDefine.py (the multi-zombie game).  The code
\* keeps time in seconds as floats (mil / 1000.0); the model keeps the same
\* quantities in whole milliseconds.
ZOM_NUM_MAX == 3
GRAVE_NUM_MAX == 10
LEVEL_UP_GAP == 5
SPAWN_ANI_TIME == 100
DEAD_ANI_TIME == 100
ATTACK_ANI_TIME == 150
RESPAWN_TIME == 1500
RESPAWN_DELTA_TIME == 200
STAY_TIME == 5000
STAY_DELTA_TIME == 300
SPAWN_ANI_INDEX_MAX == 2
DEAD_ANI_INDEX_MAX == 6
\* len(self.zombie_attack_frames)
ZOM_ATTACK_FRAMES == 4
\* self.brains = 3
MAIN_BRAINS == 3
\* HIT_FLASH_DURATION = 0.1 and the 1/60.0 update_sprite takes from the
\* timer, in 1/600 s.  In double arithmetic 0.1 less six times 1/60.0 is
\* 2.08e-17, still positive, so that a seventh step is taken: the 1 above 60
\* stands for that residue
HIT_FLASH_DURATION == 61
HIT_FLASH_STEP == 10
\* ZOM_TYPE_NORMAL, ZOM_TYPE_CONE, ZOM_TYPE_BUCKET and their health
ZOM_HEALTH == [t \in 0..2 |-> t + 1]

\* Game.__init__ and the locals set before the loop of Game.start; the
\* restart click of the end screen assigns the same values
MainStart ==
    [zombie |-> <<>>, zombie_count |-> 0, brains |-> MAIN_BRAINS, hits |-> 0,
     kills |-> 0,
     misses |-> 0, total_shots |-> 0, level |-> 1, paused |-> FALSE,
     gameTime |-> 0, lastSpawnTime |-> 0, maxStayTime |-> STAY_TIME,
     respawnTime |-> RESPAWN_TIME]

\* No brains, Spawner.__init__ of spawner.py; main.py's game before its loop
XInit ==
    /\ brains = <<>>
    /\ next_brain_check_at = 0
    /\ main = MainStart
    /\ log_file = <<>>

GameInit ==
    /\ now = 0
    /\ pc = "top"
    /\ zombies = <<>>
    /\ hits = 0
    /\ misses = 0
    /\ lives = INITIAL_LIVES
    /\ level = 1
    /\ zombies_killed = 0
    /\ game_over = FALSE
    /\ paused = FALSE
    /\ next_spawn_at = 0
    /\ completed = 0
    /\ credited = <<>>
    /\ paused_frames = 0
    /\ last = [kind |-> "other"]

InitZ ==
    /\ \E b \in BornTimes, l \in Lifetimes : z = NewZombie(1, b, l) /\ clock = b
    /\ op = "new"
    /\ ret = FALSE
    /\ trues = 0
    /\ GameInit
    /\ XInit

CallMarkHit ==
    \E t \in CallTimes :
        /\ z' = MarkHit(z, t)
        /\ clock' = t
        /\ op' = "mark_hit"
        /\ UNCHANGED <<ret, trues>>
        /\ UNCHANGED <<gvars, xvars>>

CallStartAttack ==
    \E t \in CallTimes :
        /\ z' = StartAttack(z, t)
        /\ clock' = t
        /\ op' = "start_attack"
        /\ UNCHANGED <<ret, trues>>
        /\ UNCHANGED <<gvars, xvars>>

CallUpdate ==
    \E t \in CallTimes :
        LET r == Update(z, t) IN
        /\ z' = r.zombie
        /\ clock' = t
        /\ op' = "update"
        /\ ret' = r.attack_occurred
        /\ trues' = IF r.attack_occurred THEN trues + 1 ELSE trues
        /\ UNCHANGED <<gvars, xvars>>

NextZ == CallMarkHit \/ CallStartAttack \/ CallUpdate

SpecZombie == InitZ /\ [][NextZ]_vars

-----------------------------------------------------------------------------
(* The waz.py game: spawn points, hit test, Spawner, Game *)

WIDTH == 960
HEIGHT == 540
SPRITE_WIDTH == 80
SPRITE_HEIGHT == 70
MAX_LIFETIME_MS == 2000
SPAWN_INTERVAL_MS == 600
MAX_CONCURRENT_ZOMBIES == 1
MAX_LEVEL == 10
ZOMBIES_PER_LEVEL == 10
LEVEL_SPAWN_DECREASE == 50
LEVEL_LIFETIME_DECREASE == 100
MIN_SPAWN_INTERVAL == 200
SPAWN_FLOOR_MS == 200
JITTER_MIN == -150
JITTER_MAX == 220

\* The k-th components of a sequence of tuples
Column(s, k) == IF s = <<>> THEN <<>> ELSE [i \in 1..Len(s) |-> s[i][k]]

Max(a, b) == IF a >= b THEN a ELSE b
Min(a, b) == IF a <= b THEN a ELSE b

\* Game._make_spawn_points: the 3 x 3 grid, row by row; each point is its
\* centre <<x, y>>
SpawnPoints ==
    LET left == 160 + 30
        right == WIDTH - 160 - 30
        top == 80 + 30
        bottom == HEIGHT - 40
        play_w == Max(300, right - left)
        play_h == Max(250, bottom - top)
        center_x == (left + right) \div 2
        center_y == (top + bottom) \div 2
        grid_w == Min(play_w - 40, 400)
        grid_h == Min(play_h - 40, 300)
        cell_w == grid_w \div 2
        cell_h == grid_h \div 2
        start_x == center_x - grid_w \div 2
        start_y == center_y - grid_h \div 2
    IN  [k \in 1..9 |->
            <<start_x + ((k - 1) % 3) * cell_w,
              start_y + ((k - 1) \div 3) * cell_h>>]

\* Zombie.get_vertical_offset as contains_point uses it, that is for a
\* zombie that is not attacking (the attack bob is only drawn): the rise
\* int(h * (1 - eased)) with eased = 1 - (1 - p)^2, p = t_spawn / 150, and
\* the sink int(h * t^2), t = (now - despawn_start) / 250.
GetVerticalOffset(zb, now_ms) ==
    LET t_spawn == now_ms - zb.born_at IN
    IF t_spawn < SPAWN_ANIM_MS
    THEN (SPRITE_HEIGHT * (SPAWN_ANIM_MS - t_spawn) * (SPAWN_ANIM_MS - t_spawn))
            \div (SPAWN_ANIM_MS * SPAWN_ANIM_MS)
    ELSE IF zb.despawn_start # None
    THEN LET d == now_ms - Val(zb.despawn_start) IN
         IF d < DESPAWN_ANIM_MS
         THEN (SPRITE_HEIGHT * d * d) \div (DESPAWN_ANIM_MS * DESPAWN_ANIM_MS)
         ELSE SPRITE_HEIGHT
    ELSE 0

\* contains_point with the right and bottom edges left out, as
\* pygame.Rect.collidepoint has them
ContainsPointHalfOpen(zb, point, now_ms) ==
    IF zb.attacking
    THEN FALSE
    ELSE LET cx == SpawnPoints[zb.spawn][1]
             cy == SpawnPoints[zb.spawn][2]
             adjusted_cy == cy + GetVerticalOffset(zb, now_ms)
             rect_left == cx - (SPRITE_WIDTH \div 2)
             rect_top == adjusted_cy - (SPRITE_HEIGHT \div 2)
         IN  /\ rect_left <= point[1] /\ point[1] < rect_left + SPRITE_WIDTH
             /\ rect_top <= point[2] /\ point[2] < rect_top + SPRITE_HEIGHT

\* Zombie.contains_point (waz.py): the rectangle test, edges included
ContainsPoint(zb, point, now_ms) ==
    IF zb.attacking
    THEN FALSE
    ELSE LET cx == SpawnPoints[zb.spawn][1]
             cy == SpawnPoints[zb.spawn][2]
             adjusted_cy == cy + GetVerticalOffset(zb, now_ms)
             rect_left == cx - SPRITE_WIDTH \div 2
             rect_top == adjusted_cy - SPRITE_HEIGHT \div 2
             rect_right == rect_left + SPRITE_WIDTH
             rect_bottom == rect_top + SPRITE_HEIGHT
         IN  /\ rect_left <= point[1] /\ point[1] <= rect_right
             /\ rect_top <= point[2] /\ point[2] <= rect_bottom

\* Spawner.get_spawn_interval
GetSpawnInterval(lvl) ==
    Max(MIN_SPAWN_INTERVAL, SPAWN_INTERVAL_MS - (lvl - 1) * LEVEL_SPAWN_DECREASE)

\* schedule_next with the floor `max(200, ...)` left out
ScheduleNextNoFloor(now_ms, lvl, jitter) ==
    now_ms + GetSpawnInterval(lvl) + jitter

\* schedule_next adding the jitter twice
ScheduleNextDoubleJitter(now_ms, lvl, jitter) ==
    now_ms + Max(SPAWN_FLOOR_MS, GetSpawnInterval(lvl) + 2 * jitter)

\* Spawner.schedule_next: the new next_spawn_at, for the jitter drawn
ScheduleNext(now_ms, lvl, jitter) ==
    now_ms + Max(SPAWN_FLOOR_MS, GetSpawnInterval(lvl) + jitter)

\* The jitter values and the spawn points the random draws are taken from
Jitters == {JITTER_MIN, JITTER_MAX}
SpawnPick == {1, 5}

\* maybe_spawn without `len(zombies) < MAX_CONCURRENT_ZOMBIES`
MaybeSpawnNoCap(now_ms, zs, lvl) ==
    \E j1 \in Jitters, j2 \in Jitters, sp \in SpawnPick :
        LET scheduled == IF next_spawn_at = 0
                         THEN ScheduleNext(now_ms, lvl, j1)
                         ELSE next_spawn_at
            lifetime == MAX_LIFETIME_MS - (lvl - 1) * LEVEL_LIFETIME_DECREASE
        IN  IF now_ms >= scheduled
            THEN /\ zombies' = Append(zs, NewZombie(sp, now_ms, lifetime))
                 /\ next_spawn_at' = ScheduleNext(now_ms, lvl, j2)
            ELSE /\ zombies' = zs
                 /\ next_spawn_at' = scheduled

\* maybe_spawn without its `if self.next_spawn_at == 0: schedule_next` block
MaybeSpawnNoInitialSchedule(now_ms, zs, lvl) ==
    \E j2 \in Jitters, sp \in SpawnPick :
        LET lifetime == MAX_LIFETIME_MS - (lvl - 1) * LEVEL_LIFETIME_DECREASE
        IN  IF now_ms >= next_spawn_at /\ Len(zs) < MAX_CONCURRENT_ZOMBIES
            THEN /\ zombies' = Append(zs, NewZombie(sp, now_ms, lifetime))
                 /\ next_spawn_at' = ScheduleNext(now_ms, lvl, j2)
            ELSE /\ zombies' = zs
                 /\ next_spawn_at' = next_spawn_at

\* Spawner.maybe_spawn(now_ms, zs, lvl): sets zombies' and next_spawn_at'
MaybeSpawn(now_ms, zs, lvl) ==
    \E j1 \in Jitters, j2 \in Jitters, sp \in SpawnPick :
        LET scheduled == IF next_spawn_at = 0
                         THEN ScheduleNext(now_ms, lvl, j1)
                         ELSE next_spawn_at
            lifetime == MAX_LIFETIME_MS - (lvl - 1) * LEVEL_LIFETIME_DECREASE
        IN  IF now_ms >= scheduled /\ Len(zs) < MAX_CONCURRENT_ZOMBIES
            THEN /\ zombies' = Append(zs, NewZombie(sp, now_ms, lifetime))
                 /\ next_spawn_at' = ScheduleNext(now_ms, lvl, j2)
            ELSE /\ zombies' = zs
                 /\ next_spawn_at' = scheduled

\* update_level without `min(MAX_LEVEL, ...)`
UpdateLevelUncapped(lvl, killed) ==
    LET new_level == (killed \div ZOMBIES_PER_LEVEL) + 1 IN
    IF new_level > lvl THEN new_level ELSE lvl

\* Game.update_level: the level after a kill
UpdateLevel(lvl, killed) ==
    LET new_level == Min(MAX_LEVEL, (killed \div ZOMBIES_PER_LEVEL) + 1) IN
    IF new_level > lvl THEN new_level ELSE lvl

\* the test of _handle_click without its `not z.hit`
HittableNoHitTest(zb, pos, now_ms) ==
    ~zb.attacking /\ ContainsPoint(zb, pos, now_ms)

\* the test of _handle_click reduced to `z.contains_point(pos, now_ms)`
HittableOnlyContains(zb, pos, now_ms) == ContainsPoint(zb, pos, now_ms)

\* The test `not z.hit and not z.attacking and z.contains_point(pos, now_ms)`
\* of _handle_click
Hittable(zb, pos, now_ms) ==
    ~zb.hit /\ ~zb.attacking /\ ContainsPoint(zb, pos, now_ms)

\* `for z in reversed(self.zombies)`: the index of the first zombie, newest
\* first, that passes the test of _handle_click; 0 when there is none
FirstHittable(zs, pos, now_ms) ==
    LET S == {i \in DOMAIN zs : Hittable(zs[i], pos, now_ms)} IN
    IF S = {} THEN 0 ELSE CHOOSE i \in S : \A j \in S : j <= i

-----------------------------------------------------------------------------
(* SpecGame: the loop of Game._run_game_loop *)

\* How far the clock moves from one iteration to the next
FrameSteps == {500, 2000}
\* The loop is followed until the clock passes MaxNow
MaxNow == 10000
\* A pause lasts at most this many loop iterations
MaxPausedFrames == 1
\* Left clicks handled by _handle_click between two resets
MaxClicks == 2
\* Where the mouse is when a click is handled: the centres of the two spawn
\* points used and a point on no rectangle
ClickPoints == {SpawnPoints[1], SpawnPoints[5], <<0, 0>>}

InitG ==
    /\ z = NewZombie(1, 0, 0)
    /\ clock = 0
    /\ op = "new"
    /\ ret = FALSE
    /\ trues = 0
    /\ GameInit
    /\ XInit

\* reset_game without `self.spawner.next_spawn_at = 0`
ResetGameKeepsSchedule ==
    /\ zombies' = <<>>
    /\ hits' = 0
    /\ misses' = 0
    /\ lives' = INITIAL_LIVES
    /\ level' = 1
    /\ zombies_killed' = 0
    /\ game_over' = FALSE
    /\ next_spawn_at' = next_spawn_at
    /\ completed' = 0
    /\ credited' = <<>>

\* Game.reset_game
ResetGame ==
    /\ zombies' = <<>>
    /\ hits' = 0
    /\ misses' = 0
    /\ lives' = INITIAL_LIVES
    /\ level' = 1
    /\ zombies_killed' = 0
    /\ game_over' = FALSE
    /\ next_spawn_at' = 0
    /\ completed' = 0
    /\ credited' = <<>>

\* _handle_click without the `return` after a hit: the click falls through
\* to the miss count
HandleClickHitAlsoMiss(pos) ==
    LET i == FirstHittable(zombies, pos, now) IN
    IF i # 0
    THEN /\ zombies' = [zombies EXCEPT ![i] = MarkHit(zombies[i], now)]
         /\ hits' = hits + 1
         /\ misses' = misses + 1
         /\ zombies_killed' = zombies_killed + 1
         /\ level' = UpdateLevel(level, zombies_killed + 1)
         /\ credited' = [credited EXCEPT ![i] = credited[i] + 1]
         /\ last' = [kind |-> "click", pos |-> pos, hit |-> TRUE]
         /\ UNCHANGED <<lives, game_over, next_spawn_at, completed>>
    ELSE /\ misses' = misses + 1
         /\ last' = [kind |-> "click", pos |-> pos, hit |-> FALSE]
         /\ UNCHANGED <<zombies, hits, zombies_killed, level, lives,
                        game_over, next_spawn_at, completed, credited>>

\* Game._handle_click(pos, now)
HandleClick(pos) ==
    LET i == FirstHittable(zombies, pos, now) IN
    IF i # 0
    THEN /\ zombies' = [zombies EXCEPT ![i] = MarkHit(zombies[i], now)]
         /\ hits' = hits + 1
         /\ zombies_killed' = zombies_killed + 1
         /\ level' = UpdateLevel(level, zombies_killed + 1)
         /\ credited' = [credited EXCEPT ![i] = credited[i] + 1]
         /\ last' = [kind |-> "click", pos |-> pos, hit |-> TRUE]
         /\ UNCHANGED <<misses, lives, game_over, next_spawn_at, completed>>
    ELSE /\ misses' = misses + 1
         /\ last' = [kind |-> "click", pos |-> pos, hit |-> FALSE]
         /\ UNCHANGED <<zombies, hits, zombies_killed, level, lives,
                        game_over, next_spawn_at, completed, credited>>

\* `now = pygame.time.get_ticks()` at the top of an iteration
SampleClock ==
    /\ pc = "top"
    /\ \E d \in FrameSteps : now + d <= MaxNow /\ now' = now + d
    /\ paused => paused_frames < MaxPausedFrames
    /\ paused_frames' = IF paused THEN paused_frames + 1 ELSE 0
    /\ pc' = "events"
    /\ last' = [kind |-> "other"]
    /\ UNCHANGED <<zombies, hits, misses, lives, level, zombies_killed,
                   game_over, paused, next_spawn_at, completed, credited>>
    /\ UNCHANGED <<zvars, xvars>>

\* MOUSEBUTTONDOWN, button 1
LeftClick ==
    /\ pc = "events"
    /\ \/ /\ game_over
          /\ ResetGame
          /\ last' = [kind |-> "reset", over |-> TRUE,
                      clicks |-> hits + misses]
       \/ /\ ~game_over
          /\ ~paused
          /\ hits + misses < MaxClicks
          /\ \E pos \in ClickPoints : HandleClick(pos)
       \/ /\ ~game_over
          /\ paused
          /\ last' = [kind |-> "other"]
          /\ UNCHANGED <<zombies, hits, misses, lives, level, zombies_killed,
                         game_over, next_spawn_at, completed, credited>>
    /\ UNCHANGED <<now, pc, paused, paused_frames>>
    /\ UNCHANGED <<zvars, xvars>>

\* KEYDOWN K_r
KeyReset ==
    /\ pc = "events"
    /\ ResetGame
    /\ last' = [kind |-> "reset", over |-> game_over, clicks |-> hits + misses]
    /\ UNCHANGED <<now, pc, paused, paused_frames>>
    /\ UNCHANGED <<zvars, xvars>>

\* _toggle_pause without its `if not self.game_over`
KeyPauseWhenOver ==
    /\ pc = "events"
    /\ UNCHANGED paused_frames
    /\ paused' = ~paused
    /\ last' = [kind |-> "other"]
    /\ UNCHANGED <<now, pc, zombies, hits, misses, lives, level,
                   zombies_killed, game_over, next_spawn_at, completed,
                   credited>>
    /\ UNCHANGED <<zvars, xvars>>

\* KEYDOWN K_p: Game._toggle_pause
KeyPause ==
    /\ pc = "events"
    /\ UNCHANGED paused_frames
    /\ paused' = IF ~game_over THEN ~paused ELSE paused
    /\ last' = [kind |-> "other"]
    /\ UNCHANGED <<now, pc, zombies, hits, misses, lives, level,
                   zombies_killed, game_over, next_spawn_at, completed,
                   credited>>
    /\ UNCHANGED <<zvars, xvars>>

\* The rest of the iteration after the event loop: update every zombie,
\* take the lives, prune the dead, spawn.
UpdatePhase ==
    /\ pc = "events"
    /\ pc' = "top"
    /\ IF ~paused /\ ~game_over
       THEN LET upd == [i \in DOMAIN zombies |-> Update(zombies[i], now)]
                attacks_this_frame ==
                    Cardinality({i \in DOMAIN zombies : upd[i].attack_occurred})
                lives1 == IF attacks_this_frame > 0
                          THEN lives - attacks_this_frame
                          ELSE lives
                over == attacks_this_frame > 0 /\ lives1 <= 0
                \* each updated zombie with the clicks credited to it
                paired == [i \in 1..Len(zombies) |-> <<upd[i].zombie, credited[i]>>]
                kept == SelectSeq(paired, LAMBDA pr : IsActive(pr[1]))
                newly == Cardinality({i \in DOMAIN zombies :
                            /\ upd[i].zombie.has_dealt_damage
                            /\ ~zombies[i].has_dealt_damage})
            IN  /\ lives' = IF over THEN 0 ELSE lives1
                /\ game_over' = IF over THEN TRUE ELSE game_over
                /\ completed' = completed + newly
                /\ MaybeSpawn(now, Column(kept, 1), level)
                /\ credited' = IF Len(zombies') > Len(kept)
                               THEN Append(Column(kept, 2), 0)
                               ELSE Column(kept, 2)
                /\ last' = [kind |-> "other"]
       ELSE /\ last' = [kind |-> "other"]
            /\ UNCHANGED <<zombies, lives, game_over, next_spawn_at,
                           completed, credited>>
    /\ UNCHANGED <<now, hits, misses, level, zombies_killed, paused, paused_frames>>
    /\ UNCHANGED <<zvars, xvars>>

NextG == SampleClock \/ LeftClick \/ KeyReset \/ KeyPause \/ UpdatePhase

SpecGame == InitG /\ [][NextG]_vars

-----------------------------------------------------------------------------
(* The lifecycle state of a zombie, read off its fields *)

Lifecycle(zb) ==
    IF zb.dead THEN "Dead"
    ELSE IF zb.despawn_start # None THEN "Despawning"
    ELSE IF zb.attacking THEN "Attacking"
    ELSE "Active"

\* Position in [Rising/Active, Attacking, Despawning, Dead]
Rank(zb) ==
    CASE Lifecycle(zb) = "Active" -> 0
      [] Lifecycle(zb) = "Attacking" -> 1
      [] Lifecycle(zb) = "Despawning" -> 2
      [] Lifecycle(zb) = "Dead" -> 3

-----------------------------------------------------------------------------
(* Claims about the Zombie, checked under SpecZombie *)

\* C1: mark_hit is idempotent: a mark_hit call on a zombie that is already
\* hit, at the same or any later time and whatever update calls came in
\* between, leaves hit, hit_time, despawn_start, attacking, attack_start,
\* has_dealt_damage and dead as they were.
C1_MarkHitIdempotent ==
    [][(op' = "mark_hit" /\ z.hit) =>
          /\ z'.hit = z.hit
          /\ z'.hit_time = z.hit_time
          /\ z'.despawn_start = z.despawn_start
          /\ z'.attacking = z.attacking
          /\ z'.attack_start = z.attack_start
          /\ z'.has_dealt_damage = z.has_dealt_damage
          /\ z'.dead = z.dead]_vars

\* A second mark_hit was made later than the first and the zombie is not
\* dead yet: hit_time still holds the time of the first.
C1_Witness ==
    /\ op = "mark_hit"
    /\ z.hit
    /\ ~z.dead
    /\ Val(z.hit_time) < clock

\* C3: update returns True at most once; it has returned True exactly once
\* when the attack has completed (has_dealt_damage), and an update call on
\* a zombie that is despawning or dead returns False.
C3_AttackReportedOnce ==
    /\ [](trues <= 1 /\ (z.has_dealt_damage <=> trues = 1))
    /\ [][(op' = "update" /\ (z.despawn_start # None \/ z.dead)) => ~ret']_vars

\* The attack was reported, and a later update on the dead zombie returned
\* False.
C3_Witness ==
    /\ trues = 1
    /\ z.has_dealt_damage
    /\ z.dead
    /\ op = "update"
    /\ ~ret
    /\ clock > Val(z.despawn_start) + DESPAWN_ANIM_MS

\* C5: the lifecycle state never moves backwards in
\* [Active, Attacking, Despawning, Dead], so Dead is never left; a hit takes
\* an Active zombie straight to Despawning, and a hit zombie has never been
\* Attacking.
C5_LifecycleOrder ==
    /\ [][/\ Rank(z') >= Rank(z)
          /\ (z'.hit /\ ~z.hit) =>
                (Lifecycle(z) = "Active" /\ Lifecycle(z') = "Despawning")
         ]_vars
    /\ [](z.hit => (~z.attacking /\ z.attack_start = None))

\* A zombie that went Active -> Attacking -> Despawning -> Dead.
C5_Witness ==
    /\ Lifecycle(z) = "Dead"
    /\ z.attacking
    /\ z.has_dealt_damage
    /\ ~z.hit
    /\ op = "mark_hit"

\* C6: hit and attacking are never both true.
C6_HitXorAttacking == ~(z.hit /\ z.attacking)

\* mark_hit was called on a zombie that is attacking (and it stayed unhit).
C6_Witness ==
    /\ op = "mark_hit"
    /\ z.attacking
    /\ ~z.dead
    /\ ~z.hit

\* C7: once dead is true, a call of update, mark_hit or start_attack with
\* any time leaves every lifecycle field unchanged, and update returns
\* False.
C7_DeadIsImmutable ==
    [][z.dead => (z' = z /\ (op' = "update" => ~ret'))]_vars

\* A dead zombie was updated with a time before its despawn began.
C7_Witness ==
    /\ z.dead
    /\ op = "update"
    /\ clock < Val(z.despawn_start)

\* C8: thresholds are inclusive on elapsed time.  For an unhit, unattacking
\* zombie update(now) with now - born_at < lifetime changes nothing, and
\* with now - born_at >= lifetime it starts the attack at attack_start = now
\* (returning False).  For an attacking zombie whose damage is not dealt,
\* update(now) returns True and sets despawn_start = now exactly when
\* now - attack_start >= ATTACK_ANIM_MS.
C8_InclusiveThresholds ==
    [][op' = "update" =>
          /\ (Lifecycle(z) = "Active" /\ clock' - z.born_at < z.lifetime) =>
                (z' = z /\ ~ret')
          /\ (Lifecycle(z) = "Active" /\ clock' - z.born_at >= z.lifetime) =>
                (/\ z'.attacking
                 /\ z'.attack_start = Some(clock')
                 /\ z'.despawn_start = None
                 /\ ~ret')
          /\ ( /\ Lifecycle(z) = "Attacking"
               /\ clock' - Val(z.attack_start) < ATTACK_ANIM_MS) =>
                (z' = z /\ ~ret')
          /\ ( /\ Lifecycle(z) = "Attacking"
               /\ clock' - Val(z.attack_start) >= ATTACK_ANIM_MS) =>
                (/\ ret'
                 /\ z'.has_dealt_damage
                 /\ z'.despawn_start = Some(clock'))
      ]_vars

\* The spec's instance: born 1000, lifetime 800, Attacking by update(1800),
\* attack reported by update(2100).
C8_Witness ==
    /\ z.born_at = 1000
    /\ z.lifetime = 800
    /\ z.attack_start = Some(1800)
    /\ op = "update"
    /\ clock = 2100
    /\ ret
    /\ z.despawn_start = Some(2100)

\* C10: a zombie that has been hit never becomes attacking and no update
\* on it returns True, however late the call.
C10_HitNeverAttacks ==
    /\ [][z.hit => (~z'.attacking /\ (op' = "update" => ~ret'))]_vars
    /\ [](z.hit => ~z.has_dealt_damage)

\* A hit zombie was updated after its lifetime plus the attack animation
\* had gone by.
C10_Witness ==
    /\ z.hit
    /\ op = "update"
    /\ clock - z.born_at >= z.lifetime + ATTACK_ANIM_MS

-----------------------------------------------------------------------------
(* Claims about the waz.py game loop, checked under SpecGame *)

\* C2: hits goes up at most once per zombie in that zombie's whole life: no
\* live zombie has had more than one click counted as a hit on it.
C2_OneHitPerZombie ==
    /\ Len(credited) = Len(zombies)
    /\ \A i \in DOMAIN zombies : credited[i] <= 1 /\ (credited[i] = 1 <=> zombies[i].hit)

\* A zombie was hit, and a later click on its spawn point, while it is still
\* despawning, was counted as a miss.
C2_Witness ==
    /\ zombies # <<>>
    /\ zombies[1].hit
    /\ ~zombies[1].dead
    /\ credited[1] = 1
    /\ hits = 1
    /\ last = [kind |-> "click", pos |-> SpawnPoints[zombies[1].spawn],
               hit |-> FALSE]

\* C4: at every loop iteration boundary until game over, lives is
\* INITIAL_LIVES minus the number of zombies that completed their attack
\* since the last reset.
C4_OneLifePerAttack ==
    (pc = "top" /\ ~game_over) => lives = INITIAL_LIVES - completed

\* Two zombies completed their attack and were updated again until dead and
\* pruned; a third one is live; one life is left.
C4_Witness ==
    /\ pc = "top"
    /\ ~game_over
    /\ completed = 2
    /\ lives = 1
    /\ Len(zombies) = 1
    /\ ~zombies[1].has_dealt_damage

\* C9: a handled click (game running) is never counted for a zombie that is
\* attacking or already hit: that zombie is left as it was, and when no
\* hittable zombie contains the point hits stays and misses goes up by one.
C9_NoHitOnAttackingOrHit ==
    [][(pc = "events" /\ ~game_over /\ ~paused /\ last'.kind = "click") =>
          \A i \in DOMAIN zombies :
              (zombies[i].attacking \/ zombies[i].hit) =>
                  /\ Len(zombies') = Len(zombies)
                  /\ zombies'[i] = zombies[i]
                  /\ (\A j \in DOMAIN zombies :
                          \/ zombies[j].hit
                          \/ zombies[j].attacking
                          \/ ~ContainsPoint(zombies[j], last'.pos, now)) =>
                        (hits' = hits /\ misses' = misses + 1)
      ]_vars

\* A click on the spawn point of a zombie in its attack animation was
\* counted as a miss.
C9_Witness ==
    /\ pc = "events"
    /\ zombies # <<>>
    /\ zombies[1].attacking
    /\ ~zombies[1].has_dealt_damage
    /\ now > Val(zombies[1].attack_start)
    /\ misses = 1
    /\ last = [kind |-> "click", pos |-> SpawnPoints[zombies[1].spawn],
               hit |-> FALSE]

-----------------------------------------------------------------------------
(* SpecSchedule: Spawner.schedule_next (waz.py) called with any time, level *)
(* and jitter draw                                                          *)

\* The levels passed to the Spawner: 1 .. MaxLevelArg
MaxLevelArg == 22
Levels == 1..MaxLevelArg
\* The now_ms passed to schedule_next
ScheduleTimes == {0, 5000}

\* spawner.schedule_next(now, level), the jitter being any value of
\* random.randint(-150, 220)
CallScheduleNext ==
    \E j \in JITTER_MIN..JITTER_MAX :
        /\ next_spawn_at' = ScheduleNext(now, level, j)
        /\ last' = [kind |-> "schedule_next", jitter |-> j]
        /\ UNCHANGED <<now, pc, zombies, hits, misses, lives, level,
                       zombies_killed, game_over, paused, completed, credited,
                       paused_frames>>
        /\ UNCHANGED <<zvars, xvars>>

\* The Spawner as constructed, with the arguments of the calls to come
InitS ==
    /\ z = NewZombie(1, 0, 0)
    /\ clock = 0
    /\ op = "new"
    /\ ret = FALSE
    /\ trues = 0
    /\ now \in ScheduleTimes
    /\ pc = "top"
    /\ zombies = <<>>
    /\ hits = 0
    /\ misses = 0
    /\ lives = INITIAL_LIVES
    /\ level \in Levels
    /\ zombies_killed = 0
    /\ game_over = FALSE
    /\ paused = FALSE
    /\ next_spawn_at = 0
    /\ completed = 0
    /\ credited = <<>>
    /\ paused_frames = 0
    /\ last = [kind |-> "other"]
    /\ XInit

NextS == CallScheduleNext

SpecSchedule == InitS /\ [][NextS]_vars

\* C11: after schedule_next(now, level), for every level and every jitter in
\* -150..220, next_spawn_at is later than now by at least the floor of 200.
C11_ScheduleFloor ==
    last.kind = "schedule_next" =>
        /\ next_spawn_at > now
        /\ next_spawn_at - now >= SPAWN_FLOOR_MS

\* The floor decides the result: at a level whose base interval is the
\* minimum, the lowest jitter gives exactly now + 200.
C11_Witness ==
    /\ last = [kind |-> "schedule_next", jitter |-> JITTER_MIN]
    /\ GetSpawnInterval(level) + JITTER_MIN < SPAWN_FLOOR_MS
    /\ next_spawn_at = now + SPAWN_FLOOR_MS

-----------------------------------------------------------------------------
(* The Brain pickup (src/brain.py) *)

BRAIN_LIFETIME_MS == 1000
BRAIN_DESPAWN_ANIM_MS == 300

\* Brain.__init__
NewBrain(spawn, born_at_ms) ==
    [spawn |-> spawn, born_at |-> born_at_ms, lifetime |-> BRAIN_LIFETIME_MS,
     dead |-> FALSE, picked_up |-> FALSE, pickup_time |-> None,
     despawn_start |-> None]

\* Brain.is_active
BrainIsActive(br) == ~br.dead

\* mark_picked_up that also refuses a brain whose despawn has begun
MarkPickedUpOnlyWhileActive(br, now_ms) ==
    IF br.picked_up \/ br.dead \/ br.despawn_start # None
    THEN br
    ELSE [br EXCEPT !.picked_up = TRUE, !.pickup_time = Some(now_ms),
                    !.despawn_start = Some(now_ms)]

\* mark_picked_up without its guard
MarkPickedUpUnguarded(br, now_ms) ==
    [br EXCEPT !.picked_up = TRUE, !.pickup_time = Some(now_ms),
               !.despawn_start = Some(now_ms)]

\* Brain.mark_picked_up
MarkPickedUp(br, now_ms) ==
    IF br.picked_up \/ br.dead
    THEN br
    ELSE [br EXCEPT !.picked_up = TRUE, !.pickup_time = Some(now_ms),
                    !.despawn_start = Some(now_ms)]

\* Brain.update
BrainUpdate(br, now_ms) ==
    LET b1 == IF /\ ~br.picked_up /\ ~br.dead /\ br.despawn_start = None
                 /\ now_ms - br.born_at >= br.lifetime
              THEN [br EXCEPT !.despawn_start = Some(now_ms)]
              ELSE br
    IN  IF /\ b1.despawn_start # None
           /\ now_ms - Val(b1.despawn_start) >= BRAIN_DESPAWN_ANIM_MS
        THEN [b1 EXCEPT !.dead = TRUE]
        ELSE b1

\* pygame.Rect.collidepoint on the rectangle get_rect(center = c) of a
\* w x h surface: the left and top edges are inside, the right and bottom
\* edges are not
CollidePoint(c, w, h, point) ==
    LET left == c[1] - (w \div 2)
        top == c[2] - (h \div 2)
    IN  /\ left <= point[1] /\ point[1] < left + w
        /\ top <= point[2] /\ point[2] < top + h

\* Brain.contains_point, for the scaled sprite's size (w, h) when the sprite
\* is loaded
BrainContainsPoint(br, point, sprites_loaded, w, h) ==
    IF br.picked_up \/ br.dead
    THEN FALSE
    ELSE IF sprites_loaded
         THEN CollidePoint(SpawnPoints[br.spawn], w, h, point)
         ELSE FALSE

-----------------------------------------------------------------------------
(* SpecBrain: one Brain, any interleaving of update, mark_picked_up and     *)
(* contains_point calls with non-decreasing time                            *)

BrainBornTimes == {1000}
BrainSteps == {0, 100, 300, 1000}
\* Calls are made until this long after the brain's lifetime has elapsed
MaxBrainAfter == 1000
BrainCallTimes ==
    {t \in {clock + d : d \in BrainSteps} :
        t <= brains[1].born_at + brains[1].lifetime + MaxBrainAfter}
\* The scaled sprite's size; the points asked about
BrainSpriteSizes == {<<60, 50>>}
BrainPoints == {SpawnPoints[1], <<0, 0>>}

InitB ==
    /\ z = NewZombie(1, 0, 0)
    /\ \E t \in BrainBornTimes : brains = <<NewBrain(1, t)>> /\ clock = t
    /\ op = "new"
    /\ ret = FALSE
    /\ trues = 0
    /\ GameInit
    /\ next_brain_check_at = 0
    /\ main = MainStart
    /\ log_file = <<>>

\* brain.update(t); history: last.expired_at is the time of the update that
\* began the despawn of an untouched brain
CallBrainUpdate ==
    \E t \in BrainCallTimes :
        LET b1 == BrainUpdate(brains[1], t) IN
        /\ brains' = <<b1>>
        /\ clock' = t
        /\ op' = "update"
        /\ last' = IF brains[1].despawn_start = None /\ b1.despawn_start # None
                   THEN [kind |-> "brain", expired_at |-> Some(t)]
                   ELSE IF last.kind = "brain" THEN last
                   ELSE [kind |-> "brain", expired_at |-> None]
        /\ UNCHANGED <<z, ret, trues, next_brain_check_at, main, log_file>>
        /\ UNCHANGED <<now, pc, zombies, hits, misses, lives, level,
                       zombies_killed, game_over, paused, next_spawn_at,
                       completed, credited, paused_frames>>

\* brain.mark_picked_up(t)
CallMarkPickedUp ==
    \E t \in BrainCallTimes :
        /\ brains' = <<MarkPickedUp(brains[1], t)>>
        /\ clock' = t
        /\ op' = "mark_picked_up"
        /\ last' = IF last.kind = "brain" THEN last
                   ELSE [kind |-> "brain", expired_at |-> None]
        /\ UNCHANGED <<z, ret, trues, next_brain_check_at, main, log_file>>
        /\ UNCHANGED <<now, pc, zombies, hits, misses, lives, level,
                       zombies_killed, game_over, paused, next_spawn_at,
                       completed, credited, paused_frames>>

\* brain.contains_point(point); ret is the result
CallBrainContainsPoint ==
    \E point \in BrainPoints, loaded \in BOOLEAN, size \in BrainSpriteSizes :
        /\ ret' = BrainContainsPoint(brains[1], point, loaded, size[1], size[2])
        /\ op' = "contains_point"
        /\ last' = IF last.kind = "brain" THEN last
                   ELSE [kind |-> "brain", expired_at |-> None]
        /\ UNCHANGED <<z, clock, trues, brains, next_brain_check_at, main,
                       log_file>>
        /\ UNCHANGED <<now, pc, zombies, hits, misses, lives, level,
                       zombies_killed, game_over, paused, next_spawn_at,
                       completed, credited, paused_frames>>

NextB == CallBrainUpdate \/ CallMarkPickedUp \/ CallBrainContainsPoint

SpecBrain == InitB /\ [][NextB]_vars

\* The brain's lifetime elapsed untouched and an update began its despawn
BrainExpired == last.kind = "brain" /\ last.expired_at # None

\* C18: once a brain has expired, contains_point is False for it,
\* mark_picked_up does not change it, its despawn_start stays the time the
\* expiry was observed, it is dead DESPAWN_ANIM_MS after that time, and it
\* is never picked up.
C18_ExpiredXorPickedUp ==
    BrainExpired =>
        /\ ~brains[1].picked_up
        /\ brains[1].despawn_start = last.expired_at
        /\ (op = "contains_point" => ~ret)
        /\ (op = "update" /\ clock - Val(last.expired_at) >= BRAIN_DESPAWN_ANIM_MS
                => brains[1].dead)

-----------------------------------------------------------------------------
(* The occupancy-tracking Spawner (src/spawner.py, constants of             *)
(* src/constants.py) with the Zombie of src/zombie.py and the Brain         *)

OCC_SPAWN_INTERVAL_MS == 1000
OCC_MIN_SPAWN_INTERVAL == 500
BRAIN_SPAWN_CHECK_INTERVAL_MS == 4000

\* The Spawner's spawn_points, as indices into SpawnPoints
NumOccPoints == 2
OccPoints == 1..NumOccPoints

\* Spawner.get_spawn_interval
OccGetSpawnInterval(lvl) ==
    Max(OCC_MIN_SPAWN_INTERVAL,
        OCC_SPAWN_INTERVAL_MS - (lvl - 1) * LEVEL_SPAWN_DECREASE)

\* Spawner.schedule_next: the new next_spawn_at, for the jitter drawn
OccScheduleNext(now_ms, lvl, jitter) ==
    now_ms + Max(SPAWN_FLOOR_MS, OccGetSpawnInterval(lvl) + jitter)

\* get_available_spawn_points looking at the zombies only
AvailableIgnoringBrains(zs, brs) ==
    {sp \in OccPoints :
        ~\E i \in DOMAIN zs : IsActive(zs[i]) /\ zs[i].spawn = sp}

\* get_available_spawn_points with dead in place of not dead: a despawning
\* entity does not block its point
AvailableIgnoringDespawning(zs, brs) ==
    {sp \in OccPoints :
        /\ ~\E i \in DOMAIN zs : zs[i].despawn_start = None /\ zs[i].spawn = sp
        /\ ~\E i \in DOMAIN brs :
               brs[i].despawn_start = None /\ brs[i].spawn = sp}

\* Spawner.get_available_spawn_points(zombies, brains)
GetAvailableSpawnPoints(zs, brs) ==
    LET occupied_zombies == {zs[i].spawn : i \in {k \in DOMAIN zs : IsActive(zs[k])}}
        occupied_brains ==
            IF brs # <<>>
            THEN {brs[i].spawn : i \in {k \in DOMAIN brs : BrainIsActive(brs[k])}}
            ELSE {}
    IN  {sp \in OccPoints : sp \notin (occupied_zombies \cup occupied_brains)}

\* maybe_spawn that reschedules only when it spawned
OccMaybeSpawnRescheduleOnSpawn(now_ms, zs, lvl, brs) ==
    \E j1 \in Jitters, j2 \in Jitters :
        LET scheduled == IF next_spawn_at = 0
                         THEN OccScheduleNext(now_ms, lvl, j1)
                         ELSE next_spawn_at
            available_spawns == GetAvailableSpawnPoints(zs, brs)
            lifetime == MAX_LIFETIME_MS - (lvl - 1) * LEVEL_LIFETIME_DECREASE
        IN  IF now_ms >= scheduled /\ available_spawns # {}
            THEN /\ \E sp \in available_spawns :
                        zombies' = Append(zs, NewZombie(sp, now_ms, lifetime))
                 /\ next_spawn_at' = OccScheduleNext(now_ms, lvl, j2)
            ELSE /\ zombies' = zs
                 /\ next_spawn_at' = scheduled

\* Spawner.maybe_spawn(now_ms, zombies, level, brains): sets zombies' and
\* next_spawn_at'
OccMaybeSpawn(now_ms, zs, lvl, brs) ==
    \E j1 \in Jitters, j2 \in Jitters :
        LET scheduled == IF next_spawn_at = 0
                         THEN OccScheduleNext(now_ms, lvl, j1)
                         ELSE next_spawn_at
            available_spawns == GetAvailableSpawnPoints(zs, brs)
            lifetime == MAX_LIFETIME_MS - (lvl - 1) * LEVEL_LIFETIME_DECREASE
        IN  IF now_ms >= scheduled
            THEN /\ IF available_spawns # {}
                    THEN \E sp \in available_spawns :
                            zombies' = Append(zs, NewZombie(sp, now_ms, lifetime))
                    ELSE zombies' = zs
                 /\ next_spawn_at' = OccScheduleNext(now_ms, lvl, j2)
            ELSE /\ zombies' = zs
                 /\ next_spawn_at' = scheduled

\* Spawner.maybe_spawn_brain(now_ms, zombies, brains), `lucky` being
\* random.random() < BRAIN_SPAWN_PROBABILITY: sets brains' and
\* next_brain_check_at'
MaybeSpawnBrain(now_ms, zs, brs) ==
    LET check_at == IF next_brain_check_at = 0
                    THEN now_ms + BRAIN_SPAWN_CHECK_INTERVAL_MS
                    ELSE next_brain_check_at
        available_spawns == GetAvailableSpawnPoints(zs, brs)
    IN  IF now_ms >= check_at
        THEN /\ \E lucky \in BOOLEAN :
                    IF lucky /\ available_spawns # {}
                    THEN \E sp \in available_spawns :
                            brains' = Append(brs, NewBrain(sp, now_ms))
                    ELSE brains' = brs
             /\ next_brain_check_at' = now_ms + BRAIN_SPAWN_CHECK_INTERVAL_MS
        ELSE /\ brains' = brs
             /\ next_brain_check_at' = check_at

-----------------------------------------------------------------------------
(* SpecOcc: a game that creates entities only through the Spawner, passing  *)
(* it the complete lists, and removes an entity only once it is dead        *)

OccSteps == {1000}
\* The run is followed until the clock passes MaxOccNow
MaxOccNow == 6000
OccLevels == {1}

InitOcc ==
    /\ z = NewZombie(1, 0, 0)
    /\ clock = 0
    /\ op = "new"
    /\ ret = FALSE
    /\ trues = 0
    /\ now = 0
    /\ pc = "top"
    /\ zombies = <<>>
    /\ hits = 0
    /\ misses = 0
    /\ lives = INITIAL_LIVES
    /\ level \in OccLevels
    /\ zombies_killed = 0
    /\ game_over = FALSE
    /\ paused = FALSE
    /\ next_spawn_at = 0
    /\ completed = 0
    /\ credited = <<>>
    /\ paused_frames = 0
    /\ last = [kind |-> "other"]
    /\ XInit

\* What SpecOcc leaves alone
OccUnused == <<z, clock, op, ret, trues, pc, hits, misses, lives, level,
               zombies_killed, game_over, paused, completed, credited,
               paused_frames, main, log_file>>

\* The clock moves on
OccAdvance ==
    /\ \E d \in OccSteps : now + d <= MaxOccNow /\ now' = now + d
    /\ last' = [kind |-> "other"]
    /\ UNCHANGED <<zombies, brains, next_spawn_at, next_brain_check_at>>
    /\ UNCHANGED OccUnused

\* update(now) on every zombie and brain, then the dead ones are dropped
OccUpdateAll ==
    /\ zombies' = SelectSeq([i \in DOMAIN zombies |-> Update(zombies[i], now).zombie],
                            IsActive)
    /\ brains' = SelectSeq([i \in DOMAIN brains |-> BrainUpdate(brains[i], now)],
                           BrainIsActive)
    /\ last' = [kind |-> "other"]
    /\ UNCHANGED <<now, next_spawn_at, next_brain_check_at>>
    /\ UNCHANGED OccUnused

\* A click hits a zombie: mark_hit(now)
OccHit ==
    /\ \E i \in DOMAIN zombies :
          zombies' = [zombies EXCEPT ![i] = MarkHit(zombies[i], now)]
    /\ last' = [kind |-> "other"]
    /\ UNCHANGED <<now, brains, next_spawn_at, next_brain_check_at>>
    /\ UNCHANGED OccUnused

\* A click picks a brain up: mark_picked_up(now)
OccPick ==
    /\ \E i \in DOMAIN brains :
          brains' = [brains EXCEPT ![i] = MarkPickedUp(brains[i], now)]
    /\ last' = [kind |-> "other"]
    /\ UNCHANGED <<now, zombies, next_spawn_at, next_brain_check_at>>
    /\ UNCHANGED OccUnused

\* spawner.maybe_spawn(now, zombies, level, brains); history: whether the
\* call was due, whether every spawn point was occupied, what it changed,
\* and the same of the call made just before it at the same now
OccCallMaybeSpawn ==
    /\ OccMaybeSpawn(now, zombies, level, brains)
    /\ last' = [kind |-> "maybe_spawn",
                due |-> now >= next_spawn_at,
                full |-> GetAvailableSpawnPoints(zombies, brains) = {},
                spawned |-> Len(zombies') > Len(zombies),
                moved |-> next_spawn_at' # next_spawn_at,
                prev_due |-> last.kind = "maybe_spawn" /\ last.due,
                prev_full |-> last.kind = "maybe_spawn" /\ last.full]
    /\ UNCHANGED <<now, brains, next_brain_check_at>>
    /\ UNCHANGED OccUnused

\* spawner.maybe_spawn_brain(now, zombies, brains)
OccCallMaybeSpawnBrain ==
    /\ MaybeSpawnBrain(now, zombies, brains)
    /\ last' = [kind |-> "other"]
    /\ UNCHANGED <<now, zombies, next_spawn_at>>
    /\ UNCHANGED OccUnused

NextOcc ==
    \/ OccAdvance
    \/ OccUpdateAll
    \/ OccHit
    \/ OccPick
    \/ OccCallMaybeSpawn
    \/ OccCallMaybeSpawnBrain

SpecOcc == InitOcc /\ [][NextOcc]_vars

\* The spawn points referenced by more than one non-dead entity
SharedPoints ==
    {sp \in OccPoints :
        Cardinality({i \in DOMAIN zombies : IsActive(zombies[i]) /\ zombies[i].spawn = sp})
      + Cardinality({i \in DOMAIN brains : BrainIsActive(brains[i]) /\ brains[i].spawn = sp})
      > 1}

\* C12: no two non-dead entities (zombies or brains) reference the same
\* spawn point; a despawning entity still blocks its point.
C12_OccupancyExclusive == SharedPoints = {}

\* Every point is taken, one by a zombie that is despawning and one by a
\* brain, and a due maybe_spawn call has just created nothing.
C12_Witness ==
    /\ \E i \in DOMAIN zombies :
          zombies[i].despawn_start # None /\ ~zombies[i].dead
    /\ \E i \in DOMAIN brains : ~brains[i].dead
    /\ last.kind = "maybe_spawn"
    /\ last.due
    /\ last.full
    /\ ~last.spawned

\* C13: a maybe_spawn call made with now >= next_spawn_at leaves
\* next_spawn_at >= now + 200 whether or not it created a zombie; with every
\* point occupied it creates nothing and still moves the schedule; the same
\* call repeated at once at the same now does nothing.
C13_AlwaysReschedules ==
    last.kind = "maybe_spawn" =>
        /\ last.due => next_spawn_at >= now + SPAWN_FLOOR_MS
        /\ (last.due /\ last.full) => (~last.spawned /\ last.moved)
        /\ last.prev_due => (~last.spawned /\ ~last.moved)

\* A due call found every point occupied, and the call repeated at the same
\* now changed nothing.
C13_Witness ==
    /\ last.kind = "maybe_spawn"
    /\ last.prev_due
    /\ last.prev_full
    /\ ~last.due
    /\ ~last.spawned
    /\ ~last.moved
    /\ next_spawn_at >= now + SPAWN_FLOOR_MS

-----------------------------------------------------------------------------
(* Further claims about the waz.py game loop, checked under SpecGame *)

\* The step is the update / prune / spawn part of an iteration of the
\* running game, in which spawner.maybe_spawn(now, ...) is called
SpawnerCalled == pc = "events" /\ pc' = "top" /\ ~paused /\ ~game_over

\* C14: every maybe_spawn call made with now >= next_spawn_at leaves
\* next_spawn_at later than now, also when the cap on live zombies prevents
\* the spawn.
C14_CapStillReschedules ==
    [][(SpawnerCalled /\ now >= next_spawn_at) => next_spawn_at' > now]_vars

-----------------------------------------------------------------------------
(* SpecSpawner: Spawner.maybe_spawn (waz.py) called at any level, the game  *)
(* removing the zombie between calls                                        *)

MIN_ZOMBIE_LIFETIME == 500
SpawnerSteps == {500, 1000}
\* Calls are made until the clock passes MaxSpawnerNow
MaxSpawnerNow == 7000

\* spawner.maybe_spawn(now, zombies, level)
CallMaybeSpawn ==
    /\ MaybeSpawn(now, zombies, level)
    /\ last' = [kind |-> "maybe_spawn",
                spawned |-> Len(zombies') > Len(zombies)]
    /\ UNCHANGED <<now, pc, hits, misses, lives, level, zombies_killed,
                   game_over, paused, completed, credited, paused_frames>>
    /\ UNCHANGED <<zvars, xvars>>

\* The clock moves on
SpawnerAdvance ==
    /\ \E d \in SpawnerSteps : now + d <= MaxSpawnerNow /\ now' = now + d
    /\ last' = [kind |-> "other"]
    /\ UNCHANGED <<pc, zombies, hits, misses, lives, level, zombies_killed,
                   game_over, paused, next_spawn_at, completed, credited,
                   paused_frames>>
    /\ UNCHANGED <<zvars, xvars>>

\* `self.zombies = [z for z in self.zombies if z.is_active(now)]` once the
\* zombie has died
ZombieGone ==
    /\ zombies # <<>>
    /\ zombies' = <<>>
    /\ last' = [kind |-> "other"]
    /\ UNCHANGED <<now, pc, hits, misses, lives, level, zombies_killed,
                   game_over, paused, next_spawn_at, completed, credited,
                   paused_frames>>
    /\ UNCHANGED <<zvars, xvars>>

NextSpawner == CallMaybeSpawn \/ SpawnerAdvance \/ ZombieGone

SpecSpawner == InitS /\ [][NextSpawner]_vars

\* C15: the lifetime of a zombie created by maybe_spawn is at least
\* MIN_ZOMBIE_LIFETIME, for every level >= 1 passed to it.
C15_LifetimeFloored ==
    \A i \in DOMAIN zombies : zombies[i].lifetime >= MIN_ZOMBIE_LIFETIME

\* The time a zombie has left, at time t, before its next transition:
\* to Attacking, to the end of the attack, or to Dead
Remaining(zb, t) ==
    IF zb.despawn_start # None THEN Val(zb.despawn_start) + DESPAWN_ANIM_MS - t
    ELSE IF zb.attacking THEN Val(zb.attack_start) + ATTACK_ANIM_MS - t
    ELSE zb.born_at + zb.lifetime - t

\* C16: time spent paused is excluded from entity timing: over a stretch of
\* the clock that the game spends paused every zombie keeps the time it had
\* left before its next transition, and a scheduled next spawn is delayed
\* likewise.
C16_PauseFreezesTime ==
    [][(pc = "top" /\ paused /\ now' > now) =>
          /\ \A i \in DOMAIN zombies :
                Remaining(zombies[i], now) > 0 =>
                    Remaining(zombies'[i], now') = Remaining(zombies[i], now)
          /\ next_spawn_at > now => next_spawn_at' - now' = next_spawn_at - now
      ]_vars

\* C17: no click is counted as a hit on a zombie whose lifetime has elapsed
\* (now - born_at >= lifetime) at the time the click is processed.
C17_NoHitAfterLifetime ==
    [][\A i \in DOMAIN zombies :
          (i \in DOMAIN zombies' /\ ~zombies[i].hit /\ zombies'[i].hit) =>
              now - zombies[i].born_at < zombies[i].lifetime
      ]_vars

-----------------------------------------------------------------------------
(* SpecHitTest: Zombie.contains_point asked about points on and around the  *)
(* hit rectangle, while the zombie rises, stands, sinks or attacks          *)

HitTestSpawns == {1, 5}
\* The zombie is born at 1000; the times of the calls
HitTestTimes == {1000, 1050, 1075, 1150, 1200, 1300, 1400, 2000}
\* Offsets of the points asked about from the rectangle's centre
HitTestDx == {-41, -40, 0, 40, 41}
HitTestDy == {-36, -35, 0, 35, 36}

InitH ==
    /\ \E sp \in HitTestSpawns : z = NewZombie(sp, 1000, 800)
    /\ clock = 1000
    /\ op = "new"
    /\ ret = FALSE
    /\ trues = 0
    /\ GameInit
    /\ XInit

\* zombie.contains_point(point, t); ret is the result
CallContainsPoint ==
    \E t \in {u \in HitTestTimes : u >= clock}, dx \in HitTestDx, dy \in HitTestDy :
        LET point == <<SpawnPoints[z.spawn][1] + dx,
                       SpawnPoints[z.spawn][2] + GetVerticalOffset(z, t) + dy>>
        IN  /\ ret' = ContainsPoint(z, point, t)
            /\ clock' = t
            /\ op' = "contains_point"
            /\ last' = [kind |-> "contains_point", point |-> point]
            /\ UNCHANGED <<z, trues>>
            /\ UNCHANGED <<now, pc, zombies, hits, misses, lives, level,
                           zombies_killed, game_over, paused, next_spawn_at,
                           completed, credited, paused_frames>>
            /\ UNCHANGED xvars

\* zombie.mark_hit(clock): the zombie starts to sink
HitTestMarkHit ==
    /\ z' = MarkHit(z, clock)
    /\ op' = "mark_hit"
    /\ last' = [kind |-> "other"]
    /\ UNCHANGED <<clock, ret, trues>>
    /\ UNCHANGED <<now, pc, zombies, hits, misses, lives, level,
                   zombies_killed, game_over, paused, next_spawn_at,
                   completed, credited, paused_frames>>
    /\ UNCHANGED xvars

\* zombie.update(clock): the zombie starts its attack when its lifetime is up
HitTestUpdate ==
    /\ z' = Update(z, clock).zombie
    /\ op' = "update"
    /\ last' = [kind |-> "other"]
    /\ UNCHANGED <<clock, ret, trues>>
    /\ UNCHANGED <<now, pc, zombies, hits, misses, lives, level,
                   zombies_killed, game_over, paused, next_spawn_at,
                   completed, credited, paused_frames>>
    /\ UNCHANGED xvars

NextH == CallContainsPoint \/ HitTestMarkHit \/ HitTestUpdate

SpecHitTest == InitH /\ [][NextH]_vars

\* C19: for a zombie that is not attacking, contains_point is true exactly
\* for the points with left <= px <= left + w and top <= py <= top + h, the
\* rectangle being centred on (spawn.x, spawn.y + vertical_offset): edges
\* and corners are inside, one pixel outside any edge is not.
C19_InclusiveEdges ==
    (op = "contains_point" /\ ~z.attacking) =>
        LET left == SpawnPoints[z.spawn][1] - 40
            top == SpawnPoints[z.spawn][2] + GetVerticalOffset(z, clock) - 35
            px == last.point[1]
            py == last.point[2]
        IN  ret <=> (/\ left <= px /\ px <= left + 80
                     /\ top <= py /\ py <= top + 70)

\* The bottom right corner of the rectangle of a zombie that is part way up
\* its rise is a hit.
C19_Witness ==
    /\ op = "contains_point"
    /\ ~z.attacking
    /\ GetVerticalOffset(z, clock) > 0
    /\ GetVerticalOffset(z, clock) < SPRITE_HEIGHT
    /\ last.point[1] = SpawnPoints[z.spawn][1] + 40
    /\ last.point[2] = SpawnPoints[z.spawn][2] + GetVerticalOffset(z, clock) + 35
    /\ ret

-----------------------------------------------------------------------------
(* SpecMain: the game loop of main.py (Game.start), one action per loop
   iteration.  Times are whole milliseconds.  The sounds, particles, screen
   effects and blits change nothing that the loop reads back and are left
   out. *)

\* Upper bound on a game's gameTime, and on the clicks of one game
MaxMainTime == 26000
MaxMainClicks == 1
\* The largest spawnIndex that generateZombie's random.randint is taken to
\* return
MaxSpawnIndex == 2
\* The most iterations of one game that take a long time (a stalled frame)
MaxLongFrames == 1

\* clock.tick(Constants.FPS): the frame durations drawn, in ms; LongSecs are
\* the durations of stalled frames
ShortSecs == {2000}
LongSecs == {6000}
MainSecs == ShortSecs \cup LongSecs

\* History: the stalled frames of the game so far
LongFrames == IF last.kind = "frame" THEN last.long ELSE 0

Graves == 0..(GRAVE_NUM_MAX - 1)
SpawnIndexes == {g \in Graves : g <= MaxSpawnIndex}

\* The event of an iteration: none, the P key, or a left click with the
\* mouse inside the box of grave g.  g = -1 stands for a mouse inside no box
\* of a grave that holds a zombie: isZombieHit returns -1 for all of these
MainEvents(zs) ==
    {[kind |-> "none"], [kind |-> "key_p"]}
        \cup {[kind |-> "click", grave |-> g] :
                 g \in {zs[i].index : i \in DOMAIN zs} \cup {-1}}

\* Zombie.__init__ (Classes/GameDefine.py)
NewMainZombie(index, zombie_type) ==
    [index |-> index, zombieStatus |-> 0, animationIndex |-> 0, stayTime |-> 0,
     max_health |-> ZOM_HEALTH[zombie_type],
     current_health |-> ZOM_HEALTH[zombie_type],
     hit_flash_timer |-> 0,
     attack_animation_index |-> 0, attack_timer |-> 0]

\* Game.getPlayerLevel: the level for a number of hits
GetPlayerLevel(h) == (h \div LEVEL_UP_GAP) + 1

\* Game.getStayTime
GetStayTime(lvl) ==
    LET t == STAY_TIME - lvl * STAY_DELTA_TIME IN
    IF t <= RESPAWN_DELTA_TIME THEN RESPAWN_DELTA_TIME ELSE t

\* Game.getRespawnTime
GetRespawnTime(lvl) ==
    LET t == RESPAWN_TIME - lvl * RESPAWN_DELTA_TIME IN
    IF t <= RESPAWN_DELTA_TIME THEN RESPAWN_DELTA_TIME ELSE t

\* Game.get_zombie_type_for_level: the types random.choice may return
ZombieTypesForLevel(lvl) ==
    IF lvl <= 2 THEN {0} ELSE IF lvl <= 4 THEN {0, 1} ELSE {0, 1, 2}

\* isZombieHit without the test of zombieStatus
IsZombieHitAnyStatus(zs, g) ==
    LET hit == {i \in DOMAIN zs : /\ zs[i].animationIndex > SPAWN_ANI_INDEX_MAX
                                  /\ zs[i].index = g} IN
    IF hit = {} THEN 0 ELSE CHOOSE i \in hit : \A j \in hit : i <= j

\* Game.isZombieHit: the list position of the first fully emerged rising
\* zombie whose grave box holds the mouse; 0 stands for the code's -1
IsZombieHit(zs, g) ==
    LET hit == {i \in DOMAIN zs : /\ zs[i].zombieStatus = 0
                                  /\ zs[i].animationIndex > SPAWN_ANI_INDEX_MAX
                                  /\ zs[i].index = g} IN
    IF hit = {} THEN 0 ELSE CHOOSE i \in hit : \A j \in hit : i <= j

\* hit_zombie with `< 0` where the code has `<= 0`
HitZombieOneMore(zb) ==
    LET h == zb.current_health - 1 IN
    IF h < 0
    THEN [zb EXCEPT !.current_health = h, !.zombieStatus = 2,
                    !.hit_flash_timer = HIT_FLASH_DURATION]
    ELSE [zb EXCEPT !.current_health = h, !.zombieStatus = 0,
                    !.hit_flash_timer = HIT_FLASH_DURATION,
                    !.animationIndex = IF zb.animationIndex - 1 > 0
                                       THEN zb.animationIndex - 1 ELSE 0]

\* Game.hit_zombie: the zombie after the hit
HitZombie(zb) ==
    LET h == zb.current_health - 1 IN
    IF h <= 0
    THEN [zb EXCEPT !.current_health = h, !.zombieStatus = 2,
                    !.hit_flash_timer = HIT_FLASH_DURATION]
    ELSE [zb EXCEPT !.current_health = h, !.zombieStatus = 0,
                    !.hit_flash_timer = HIT_FLASH_DURATION,
                    !.animationIndex = IF zb.animationIndex - 1 > 0
                                       THEN zb.animationIndex - 1 ELSE 0]

\* The event loop of an iteration, for one event
MainHandleEvent(m, ev) ==
    IF ev.kind = "key_p" THEN [m EXCEPT !.paused = ~m.paused]
    ELSE IF ev.kind = "click" /\ ~m.paused
    THEN LET hitPos == IsZombieHit(SubSeq(m.zombie, 1, m.zombie_count), ev.grave)
             m1 == [m EXCEPT !.total_shots = @ + 1] IN
         IF hitPos # 0
         THEN LET zb == HitZombie(m.zombie[hitPos])
                  m2 == [m1 EXCEPT !.hits = @ + 1, !.zombie[hitPos] = zb] IN
              IF zb.zombieStatus = 2
              THEN LET nextLevel == GetPlayerLevel(m2.hits) IN
                   [m2 EXCEPT !.kills = @ + 1,
                              !.brains = IF nextLevel # m2.level THEN @ + 1 ELSE @,
                              !.level = nextLevel,
                              !.maxStayTime = GetStayTime(nextLevel),
                              !.respawnTime = GetRespawnTime(nextLevel)]
              ELSE m2
         ELSE [m1 EXCEPT !.misses = @ + 1]
    ELSE m

\* One pass of the body of `while zombieIndex < self.zombie_count` for one
\* zombie: the zombie afterwards, whether the pass ends in `continue` on the
\* same index ("again"), pops the zombie ("pop") or moves on ("next"), and
\* whether it set isEaten
ZombiePass(zb0, sec, maxStayTime) ==
    LET zb == [zb0 EXCEPT !.stayTime = @ + sec] IN
    CASE zb.zombieStatus = 0 ->
           IF zb.stayTime > SPAWN_ANI_TIME
           THEN IF zb.animationIndex > SPAWN_ANI_INDEX_MAX
                THEN IF zb.stayTime > maxStayTime
                     THEN [zb |-> [zb EXCEPT !.animationIndex = SPAWN_ANI_INDEX_MAX,
                                             !.zombieStatus = 1,
                                             !.stayTime = 0,
                                             !.attack_timer = 0,
                                             !.attack_animation_index = 0],
                           then |-> "again", eaten |-> FALSE]
                     ELSE [zb |-> zb, then |-> "next", eaten |-> FALSE]
                ELSE [zb |-> [zb EXCEPT !.animationIndex = @ + 1, !.stayTime = 0],
                      then |-> "next", eaten |-> FALSE]
           ELSE [zb |-> zb, then |-> "next", eaten |-> FALSE]
      [] zb.zombieStatus = 1 ->
           LET za == [zb EXCEPT !.attack_timer = @ + sec] IN
           IF za.attack_timer > ATTACK_ANI_TIME
           THEN IF za.attack_animation_index < ZOM_ATTACK_FRAMES
                THEN [zb |-> [za EXCEPT !.attack_animation_index = @ + 1,
                                        !.attack_timer = 0],
                      then |-> "next", eaten |-> FALSE]
                ELSE [zb |-> [za EXCEPT !.zombieStatus = 3,
                                        !.animationIndex = SPAWN_ANI_INDEX_MAX,
                                        !.stayTime = 0],
                      then |-> "next", eaten |-> TRUE]
           ELSE [zb |-> za, then |-> "next", eaten |-> FALSE]
      [] zb.zombieStatus = 2 ->
           IF zb.stayTime > DEAD_ANI_TIME
           THEN [zb |-> [zb EXCEPT !.animationIndex = @ + 1, !.stayTime = 0],
                 then |-> IF zb.animationIndex + 1 > DEAD_ANI_INDEX_MAX
                          THEN "pop" ELSE "next",
                 eaten |-> FALSE]
           ELSE [zb |-> zb, then |-> "next", eaten |-> FALSE]
      [] OTHER ->
           IF zb.stayTime > SPAWN_ANI_TIME
           THEN [zb |-> [zb EXCEPT !.animationIndex = @ - 1, !.stayTime = 0],
                 then |-> IF zb.animationIndex - 1 < -1 THEN "pop" ELSE "next",
                 eaten |-> FALSE]
           ELSE [zb |-> zb, then |-> "next", eaten |-> FALSE]

\* The list without its i-th element: self.zombie.pop(zombieIndex)
PopAt(zs, i) == SubSeq(zs, 1, i - 1) \o SubSeq(zs, i + 1, Len(zs))

\* The whole `while zombieIndex < self.zombie_count` loop from list position
\* i on.  st.zombie is the list, st.zombie_count self.zombie_count,
\* st.isEaten the code's flag; st.attacks counts the zombies whose attack
\* completed (history, not program state)
RECURSIVE ZombieLoop(_, _, _, _)
ZombieLoop(st, i, sec, maxStayTime) ==
    IF i > st.zombie_count THEN st
    ELSE LET r == ZombiePass(st.zombie[i], sec, maxStayTime) IN
         IF r.then = "pop"
         THEN ZombieLoop([st EXCEPT !.zombie = PopAt(st.zombie, i),
                                    !.zombie_count = @ - 1],
                         i, sec, maxStayTime)
         ELSE ZombieLoop([st EXCEPT !.zombie[i] = r.zb,
                                    !.isEaten = IF r.eaten THEN TRUE ELSE @,
                                    !.attacks = IF r.eaten THEN @ + 1 ELSE @],
                         IF r.then = "again" THEN i ELSE i + 1,
                         sec, maxStayTime)

\* Game.update_sprite: the list after the hit flash of each zombie drawn has
\* been counted down
RECURSIVE UpdateSprite(_)
UpdateSprite(zs) ==
    IF zs = <<>> THEN <<>>
    ELSE LET thisZombie == Head(zs) IN
         <<IF thisZombie.hit_flash_timer > 0
           THEN [thisZombie EXCEPT !.hit_flash_timer = @ - HIT_FLASH_STEP]
           ELSE thisZombie>> \o UpdateSprite(Tail(zs))

\* Game.update_brain: self.brains afterwards
UpdateBrain(b, isEaten) == IF isEaten THEN b - 1 ELSE b

\* generateZombie without the loop that looks for a zombie on the drawn grave
GenerateZombieAnyGrave(cnt, zs, spawnIndex, zombie_type) ==
    IF cnt >= ZOM_NUM_MAX
    THEN [zombie |-> zs, zombie_count |-> cnt, made |-> 0]
    ELSE [zombie |-> Append(zs, NewMainZombie(spawnIndex, zombie_type)),
          zombie_count |-> cnt + 1, made |-> 1]

\* Game.generateZombie for the drawn spawnIndex and type, cnt being
\* self.zombie_count: the list and the count afterwards, and the value
\* returned
GenerateZombie(cnt, zs, spawnIndex, zombie_type) ==
    IF cnt >= ZOM_NUM_MAX
    THEN [zombie |-> zs, zombie_count |-> cnt, made |-> 0]
    ELSE IF \E i \in 1..cnt : zs[i].index = spawnIndex
    THEN [zombie |-> zs, zombie_count |-> cnt, made |-> 0]
    ELSE [zombie |-> Append(zs, NewMainZombie(spawnIndex, zombie_type)),
          zombie_count |-> cnt + 1, made |-> 1]

MainUnused == <<z, clock, op, ret, trues, now, pc, zombies, hits, misses,
                lives, level, zombies_killed, game_over, paused, next_spawn_at,
                completed, credited, paused_frames, brains, next_brain_check_at,
                log_file>>

InitM ==
    /\ z = NewZombie(1, 0, 0)
    /\ clock = 0
    /\ op = "new"
    /\ ret = FALSE
    /\ trues = 0
    /\ GameInit
    /\ XInit

\* One iteration of `while loop` with self.brains > 0.  History: last.before
\* is self.brains when update_statistics is called, last.attacks the number
\* of zombies that went from status 1 to status 3 in the iteration, last.long
\* the stalled frames so far
MainFrame ==
    /\ main.brains > 0
    /\ \E ev \in MainEvents(main.zombie), mil \in MainSecs :
        /\ ev.kind = "click" => main.total_shots < MaxMainClicks
        /\ LET m1 == MainHandleEvent(main, ev)
               sec == IF m1.paused THEN 0 ELSE mil
               gameTime == m1.gameTime + sec
               st == ZombieLoop([zombie |-> m1.zombie,
                                 zombie_count |-> m1.zombie_count,
                                 isEaten |-> FALSE, attacks |-> 0],
                                1, sec, m1.maxStayTime)
               due == ~m1.paused /\ gameTime - m1.lastSpawnTime > m1.respawnTime
           IN
           /\ gameTime <= MaxMainTime
           /\ sec \in LongSecs => LongFrames < MaxLongFrames
           /\ \E spawnIndex \in IF due THEN SpawnIndexes ELSE {0},
                 zombie_type \in IF due THEN ZombieTypesForLevel(m1.level)
                                        ELSE {0} :
                \E gen \in {IF due
                             THEN GenerateZombie(st.zombie_count,
                                                 UpdateSprite(st.zombie),
                                                 spawnIndex, zombie_type)
                             ELSE [zombie |-> UpdateSprite(st.zombie),
                                   zombie_count |-> st.zombie_count,
                                   made |-> 0]} :
                main' = [m1 EXCEPT !.gameTime = gameTime,
                                   !.zombie = gen.zombie,
                                   !.zombie_count = gen.zombie_count,
                                   !.brains = UpdateBrain(m1.brains, st.isEaten),
                                   !.lastSpawnTime = IF gen.made = 1
                                                     THEN gameTime ELSE @]
           /\ last' = [kind |-> "frame", before |-> m1.brains,
                       attacks |-> st.attacks,
                       long |-> IF sec \in LongSecs THEN LongFrames + 1
                                ELSE LongFrames]
    /\ UNCHANGED MainUnused

\* The restart click of the end screen (self.brains <= 0)
MainRestart ==
    /\ main.brains <= 0
    /\ main' = [MainStart EXCEPT !.paused = main.paused]
    /\ last' = [kind |-> "other"]
    /\ UNCHANGED MainUnused

NextMain ==
    \/ MainFrame
    \/ MainRestart

SpecMain == InitM /\ [][NextMain]_vars

\* C20: in main.py every zombie that completes its attack (status 1 -> 3)
\* costs the player exactly one brain, for every number of zombies that
\* complete in the same iteration: after the iteration, self.brains is its
\* value before update_statistics minus the number of completed attacks.
C20_OneBrainPerAttack ==
    last.kind = "frame" => main.brains = last.before - last.attacks

-----------------------------------------------------------------------------
(* SpecLog: the waz.py game loop with the GameLogger writes of
   _handle_click and update_level.  Each write to the log file either
   succeeds or raises inside the `with open(...)` block (a missing
   directory, a full disk, a read-only file). *)

\* Left clicks handled after the initial state
MaxLogClicks == 1

\* zombies_killed (= hits) when the run is picked up: a fresh game, and a
\* game one kill away from the next level
LogKills == {0, ZOMBIES_PER_LEVEL - 1}

\* The clicks handled so far
LogClicks ==
    LET start == CHOOSE k \in LogKills :
                    /\ k <= zombies_killed
                    /\ \A k2 \in LogKills : k2 <= zombies_killed => k2 <= k
    IN  hits + misses - start

\* The body of the `try:` of log_click / log_level_up: the file afterwards
\* and whether open / write raised
LogWrite(file, row, write_ok) ==
    IF write_ok
    THEN [file |-> Append(file, row), raised |-> FALSE]
    ELSE [file |-> file, raised |-> TRUE]

\* log_click without its `except Exception`
LogClickUncaught(file, hit, write_ok) ==
    LET w == LogWrite(file, <<IF hit THEN "HIT" ELSE "MISS">>, write_ok) IN
    [file |-> w.file, escaped |-> w.raised]

\* GameLogger.log_click: the file afterwards and whether an exception leaves
\* the call.  What open / write raise is an OSError, which `except Exception`
\* catches
LogClick(file, hit, write_ok) ==
    LET w == LogWrite(file, <<IF hit THEN "HIT" ELSE "MISS">>, write_ok) IN
    [file |-> w.file, escaped |-> FALSE]

\* GameLogger.log_level_up
LogLevelUp(file, lvl, write_ok) ==
    LET w == LogWrite(file, <<"LEVEL UP", lvl>>, write_ok) IN
    [file |-> w.file, escaped |-> FALSE]

\* Game._handle_click(pos, now) with Game.update_level, statement by
\* statement, on the game g = [zombies, hits, misses, zombies_killed, level,
\* log_file]: the game afterwards and whether an exception leaves the call.
\* ok_click / ok_level say whether the write of log_click / log_level_up
\* succeeds
HandleClickLogged(g, pos, now_ms, ok_click, ok_level) ==
    LET i == FirstHittable(g.zombies, pos, now_ms) IN
    IF i # 0
    THEN LET g1 == [g EXCEPT !.zombies[i] = MarkHit(g.zombies[i], now_ms),
                             !.hits = @ + 1,
                             !.zombies_killed = @ + 1]
             lc == LogClick(g1.log_file, TRUE, ok_click)
             g2 == [g1 EXCEPT !.log_file = lc.file]
             new_level == Min(MAX_LEVEL,
                              (g2.zombies_killed \div ZOMBIES_PER_LEVEL) + 1)
         IN  IF lc.escaped THEN [game |-> g2, escaped |-> TRUE]
             ELSE IF new_level > g2.level
             THEN LET ll == LogLevelUp(g2.log_file, new_level, ok_level) IN
                  [game |-> [g2 EXCEPT !.level = new_level,
                                       !.log_file = ll.file],
                   escaped |-> ll.escaped]
             ELSE [game |-> g2, escaped |-> FALSE]
    ELSE LET g1 == [g EXCEPT !.misses = @ + 1]
             lc == LogClick(g1.log_file, FALSE, ok_click)
         IN  [game |-> [g1 EXCEPT !.log_file = lc.file], escaped |-> lc.escaped]

\* The fields of the game that _handle_click works on
LogGame ==
    [zombies |-> zombies, hits |-> hits, misses |-> misses,
     zombies_killed |-> zombies_killed, level |-> level, log_file |-> log_file]

InitL ==
    /\ z = NewZombie(1, 0, 0)
    /\ clock = 0
    /\ op = "new"
    /\ ret = FALSE
    /\ trues = 0
    /\ now = 0
    /\ pc = "top"
    /\ zombies = <<>>
    /\ \E k \in LogKills :
        /\ hits = k
        /\ zombies_killed = k
        /\ level = UpdateLevel(1, k)
    /\ misses = 0
    /\ lives = INITIAL_LIVES
    /\ game_over = FALSE
    /\ paused = FALSE
    /\ next_spawn_at = 0
    /\ completed = 0
    /\ credited = <<>>
    /\ paused_frames = 0
    /\ last = [kind |-> "other"]
    /\ XInit

\* MOUSEBUTTONDOWN, button 1, while the game runs.  History: last.escaped
\* is whether an exception left _handle_click, last.failed whether a write
\* of the click raised
LogLeftClick ==
    /\ pc = "events"
    /\ ~game_over
    /\ ~paused
    /\ LogClicks < MaxLogClicks
    /\ last.kind = "logged_click" => ~last.escaped
    /\ \E pos \in ClickPoints, ok_click \in BOOLEAN, ok_level \in BOOLEAN :
        \E r \in {HandleClickLogged(LogGame, pos, now, ok_click, ok_level)} :
            /\ zombies' = r.game.zombies
            /\ hits' = r.game.hits
            /\ misses' = r.game.misses
            /\ zombies_killed' = r.game.zombies_killed
            /\ level' = r.game.level
            /\ log_file' = r.game.log_file
            /\ last' = [kind |-> "logged_click", pos |-> pos,
                        escaped |-> r.escaped,
                        failed |-> Len(r.game.log_file) - Len(log_file)
                                     < (IF r.game.level # level THEN 2 ELSE 1)]
    /\ UNCHANGED <<now, pc, lives, game_over, paused, next_spawn_at, completed,
                   credited, paused_frames>>
    /\ UNCHANGED <<zvars, brains, next_brain_check_at, main>>

\* The loop stops when an exception leaves _handle_click (Game.run's
\* `finally: pygame.quit()`)
LogRunning == last.kind = "logged_click" => ~last.escaped

LogSampleClock == LogRunning /\ SampleClock
LogUpdatePhase == LogRunning /\ UpdatePhase

NextL == LogSampleClock \/ LogLeftClick \/ LogUpdatePhase

SpecLog == InitL /\ [][NextL]_vars

\* C21: a failed write to the log file is not fatal and does not reach the
\* game logic: no exception leaves _handle_click, and hits, misses,
\* zombies_killed, level and the zombies are after the click what they are
\* when every write succeeds.
C21_LogFailureInvisible ==
    [][last'.kind = "logged_click" =>
        LET want == HandleClickLogged(LogGame, last'.pos, now, TRUE, TRUE).game IN
        /\ ~last'.escaped
        /\ zombies' = want.zombies
        /\ hits' = want.hits
        /\ misses' = want.misses
        /\ zombies_killed' = want.zombies_killed
        /\ level' = want.level]_vars

\* A hit that raises the level was handled and one of its writes failed
C21_Witness ==
    /\ last.kind = "logged_click"
    /\ last.failed
    /\ level = 2
    /\ hits = ZOMBIES_PER_LEVEL

-----------------------------------------------------------------------------
(* Further claims about the waz.py game loop (SpecGame), continued *)

\* C22: an iteration handles the input, updates, prunes and spawns in that
\* order, so a zombie that an update made dead leaves the live list in the
\* same iteration: between iterations and while the events of an iteration
\* are handled the live list holds no dead zombie, so that no click and no
\* update is applied to one.
C22_NoDeadInLiveList ==
    \A i \in DOMAIN zombies : ~zombies[i].dead

\* An iteration has pruned the zombie whose attack had completed and has
\* spawned the next one
C22_Witness ==
    /\ pc = "top"
    /\ completed > 0
    /\ ~game_over
    /\ Len(zombies) = 1
    /\ zombies[1].born_at = now

\* C23: reset_game (the R key at any time, a left click while the game is
\* over) empties the live list, zeroes hits, misses and zombies_killed, sets
\* lives to INITIAL_LIVES and level to 1, clears game_over and puts the
\* spawner back to its unscheduled timing next_spawn_at = 0, whatever the
\* game was before.
C23_ResetRestoresInitial ==
    last.kind = "reset" =>
        /\ zombies = <<>>
        /\ hits = 0
        /\ misses = 0
        /\ zombies_killed = 0
        /\ lives = INITIAL_LIVES
        /\ level = 1
        /\ ~game_over
        /\ next_spawn_at = 0

\* A game that was over, with clicks counted, has been reset
C23_Witness ==
    /\ last.kind = "reset"
    /\ last.over
    /\ last.clicks > 0

\* C24: after any sequence of frames, clicks, pauses and resets the live
\* list holds at most MAX_CONCURRENT_ZOMBIES zombies; a hit zombie that is
\* still despawning is in the list and so counts toward the cap.
C24_AtMostMaxConcurrent ==
    Len(zombies) <= MAX_CONCURRENT_ZOMBIES

\* An iteration has ended with a spawn due while the only zombie is a hit
\* one that is still despawning
C24_Witness ==
    /\ pc = "top"
    /\ ~paused
    /\ Len(zombies) = MAX_CONCURRENT_ZOMBIES
    /\ zombies[1].hit
    /\ next_spawn_at > 0
    /\ now >= next_spawn_at

\* C32: when an iteration of the loop ends, 0 <= lives <= INITIAL_LIVES and
\* game_over holds exactly when lives = 0; paused and game_over never hold
\* together; and a step taken while game_over holds is either a reset, which
\* ends the game over, or leaves the zombies, the counters, the spawn
\* schedule and paused as they are.
C32_GameOverFreezes ==
    [][/\ pc' = "top" =>
             /\ lives' \in 0..INITIAL_LIVES
             /\ game_over' <=> lives' = 0
       /\ ~(paused' /\ game_over')
       /\ game_over =>
             \/ last'.kind = "reset" /\ ~game_over'
             \/ UNCHANGED <<zombies, hits, misses, lives, level,
                            zombies_killed, next_spawn_at, paused, game_over>>
      ]_vars

\* An iteration has ended with the game over and a zombie in the list whose
\* despawn animation has run out without an update marking it dead
C32_Witness ==
    /\ pc = "top"
    /\ game_over
    /\ lives = 0
    /\ \E i \in DOMAIN zombies :
          /\ ~zombies[i].dead
          /\ zombies[i].despawn_start # None
          /\ now - Val(zombies[i].despawn_start) >= DESPAWN_ANIM_MS

-----------------------------------------------------------------------------
(* Further claims about one Zombie (SpecZombie) *)

\* C25: when update(now) returns for a zombie that is not dead, no phase has
\* run past its duration: an active zombie (not hit, not attacking) has
\* now - born_at < lifetime, an attacking zombie whose damage is not yet
\* dealt has now - attack_start < ATTACK_ANIM_MS, and a despawning zombie has
\* now - despawn_start < DESPAWN_ANIM_MS.
C25_ProgressBelowOne ==
    (op = "update" /\ ~z.dead) =>
        /\ (~z.hit /\ ~z.attacking) => clock - z.born_at < z.lifetime
        /\ (z.attacking /\ ~z.has_dealt_damage) =>
              /\ z.attack_start # None
              /\ clock - Val(z.attack_start) < ATTACK_ANIM_MS
        /\ z.despawn_start # None =>
              clock - Val(z.despawn_start) < DESPAWN_ANIM_MS

\* An update has returned part-way through the attack of a zombie whose
\* lifetime ran out
C25_Witness ==
    /\ op = "update"
    /\ ~z.dead
    /\ z.attacking
    /\ ~z.has_dealt_damage
    /\ clock > Val(z.attack_start)
    /\ Val(z.attack_start) >= z.born_at + z.lifetime

\* C28: one call of update makes at most one lifecycle transition (start the
\* attack, complete the attack, become dead), however late the call comes;
\* it returns True no earlier than ATTACK_ANIM_MS after the attack started and
\* never in the call that started it, and it sets dead no earlier than
\* DESPAWN_ANIM_MS after a despawn that began in an earlier call, so that a
\* zombie never hit becomes dead in a call that found the attack already
\* started and completed.
C28_OneTransitionPerUpdate ==
    [][op' = "update" =>
        LET started   == ~z.attacking /\ z'.attacking
            completed_attack == ~z.has_dealt_damage /\ z'.has_dealt_damage
            died      == ~z.dead /\ z'.dead
        IN  /\ ~(started /\ completed_attack)
            /\ ~(started /\ died)
            /\ ~(completed_attack /\ died)
            /\ (ret' /\ vars' # vars) => completed_attack
            /\ completed_attack =>
                  /\ ret'
                  /\ z.attacking
                  /\ clock' - Val(z.attack_start) >= ATTACK_ANIM_MS
            /\ died =>
                  /\ z.despawn_start # None
                  /\ clock' - Val(z.despawn_start) >= DESPAWN_ANIM_MS
                  /\ ~z.hit => z.attacking /\ z.has_dealt_damage]_vars

\* An update called long after both animations could have run has only
\* completed the attack: damage is dealt and the zombie is not dead
C28_Witness ==
    /\ op = "update"
    /\ ret
    /\ ~z.dead
    /\ z.has_dealt_damage
    /\ z.despawn_start = Some(clock)
    /\ clock - Val(z.attack_start) >= ATTACK_ANIM_MS + DESPAWN_ANIM_MS

-----------------------------------------------------------------------------
(* Further claims about Spawner.schedule_next (SpecSchedule) *)

\* C26: schedule_next(now, level) puts the next spawn in the window
\* max(200, base - 150) <= next_spawn_at - now <= base + 220, where base =
\* max(MIN_SPAWN_INTERVAL, SPAWN_INTERVAL_MS - (level - 1) *
\* LEVEL_SPAWN_DECREASE); the base interval get_spawn_interval returns is
\* never below MIN_SPAWN_INTERVAL and does not grow with the level.  Checked
\* for the Spawner of waz.py on the call made and for the Spawner of
\* spawner.py on the same arguments.
C26_SpawnWindow ==
    last.kind = "schedule_next" =>
        LET base == Max(MIN_SPAWN_INTERVAL,
                        SPAWN_INTERVAL_MS - (level - 1) * LEVEL_SPAWN_DECREASE)
            d == next_spawn_at - now
            occ_base == Max(OCC_MIN_SPAWN_INTERVAL,
                            OCC_SPAWN_INTERVAL_MS - (level - 1) * LEVEL_SPAWN_DECREASE)
            occ_d == OccScheduleNext(now, level, last.jitter) - now
        IN  /\ Max(200, base - 150) <= d
            /\ d <= base + 220
            /\ GetSpawnInterval(level) >= MIN_SPAWN_INTERVAL
            /\ \A l \in Levels :
                  l <= level => GetSpawnInterval(l) >= GetSpawnInterval(level)
            /\ Max(200, occ_base - 150) <= occ_d
            /\ occ_d <= occ_base + 220
            /\ OccGetSpawnInterval(level) >= OCC_MIN_SPAWN_INTERVAL
            /\ \A l \in Levels :
                  l <= level => OccGetSpawnInterval(l) >= OccGetSpawnInterval(level)

\* The call drew the largest jitter at a level whose interval is above the
\* minimum: the next spawn is at the upper end of the window
C26_Witness ==
    /\ last.kind = "schedule_next"
    /\ last.jitter = JITTER_MAX
    /\ level = 3
    /\ next_spawn_at - now = GetSpawnInterval(level) + JITTER_MAX
    /\ GetSpawnInterval(level) > MIN_SPAWN_INTERVAL

-----------------------------------------------------------------------------
(* SpecLive: the waz.py game loop that keeps iterating.  The loop body runs
   to its end in every iteration, so the clock sample and the update block
   are taken again and again for as long as they can be. *)

\* How far the clock moves from one iteration to the next
LiveSteps == {500, 1000}
\* The loop is followed until the clock passes MaxLiveNow
MaxLiveNow == 6000

\* `now = pygame.time.get_ticks()` at the top of an iteration
LiveSampleClock ==
    /\ pc = "top"
    /\ \E d \in LiveSteps : now + d <= MaxLiveNow /\ now' = now + d
    /\ paused => paused_frames < MaxPausedFrames
    /\ paused_frames' = IF paused THEN paused_frames + 1 ELSE 0
    /\ pc' = "events"
    /\ last' = [kind |-> "other"]
    /\ UNCHANGED <<zombies, hits, misses, lives, level, zombies_killed,
                   game_over, paused, next_spawn_at, completed, credited>>
    /\ UNCHANGED <<zvars, xvars>>

NextLive == LiveSampleClock \/ LeftClick \/ KeyReset \/ KeyPause \/ UpdatePhase

SpecLive ==
    /\ InitG
    /\ [][NextLive]_vars
    /\ WF_vars(LiveSampleClock)
    /\ WF_vars(UpdatePhase)

\* The longest step of the clock between two iterations
MaxLiveStep == CHOOSE d \in LiveSteps : \A e \in LiveSteps : e <= d

\* The clock samples
LiveTimes == {t \in 1..MaxLiveNow : \E d \in LiveSteps : t % d = 0}

\* The zombie born at b is in the live list, and the clock is followed for
\* long enough from now on for it to pass through the rest of its lifetime,
\* its attack and its despawn with one update per phase
Present(b) == \E i \in DOMAIN zombies : zombies[i].born_at = b
EarlyEnough == now + MAX_LIFETIME_MS + 3 * MaxLiveStep <= MaxLiveNow

\* C27: while the loop keeps iterating with an advancing clock and the game
\* is neither paused nor over, every spawned zombie is eventually dead and
\* removed from the live list (hit -> despawn, or timeout -> attack ->
\* despawn): none stays active, attacking or despawning forever.
C27_EveryZombieRemoved ==
    \A b \in {t \in LiveTimes : t + MAX_LIFETIME_MS + 3 * MaxLiveStep <= MaxLiveNow} :
        (Present(b) /\ EarlyEnough) ~> (~Present(b) \/ paused \/ game_over)

\* A zombie has run through attack and despawn and has been removed while
\* the game went on
C27_Witness ==
    /\ pc = "top"
    /\ completed > 0
    /\ ~game_over
    /\ ~paused
    /\ \A i \in DOMAIN zombies : ~zombies[i].has_dealt_damage

-----------------------------------------------------------------------------
(* SpecSpacing: Spawner.maybe_spawn (waz.py or spawner.py) called over a    *)
(* fine clock, zombies removed between calls, the waz.py game reset         *)

SpacingCodes == {"waz.py", "spawner.py"}
SpacingLevels == {1, MAX_LEVEL}
SpacingSteps == {50, 200}
\* Calls are made until the clock passes MaxSpacingNow
MaxSpacingNow == 1200
\* Game.reset_game is called at most this many times
MaxSpacingResets == 1

\* History of the calls: the time of the first call since construction or
\* reset, of the first creation since then, of the latest creation, the time
\* between the latest two creations, and what the latest call did
SpacingStart(code) ==
    [kind |-> "spacing", code |-> code, first_call |-> None,
     first_created |-> None, created |-> None, gap |-> None,
     spawned |-> 0, was_first |-> FALSE, resets |-> 0]

\* The Spawner as constructed
InitSpacing ==
    /\ z = NewZombie(1, 0, 0)
    /\ clock = 0
    /\ op = "new"
    /\ ret = FALSE
    /\ trues = 0
    /\ now = 0
    /\ pc = "top"
    /\ zombies = <<>>
    /\ hits = 0
    /\ misses = 0
    /\ lives = INITIAL_LIVES
    /\ level \in SpacingLevels
    /\ zombies_killed = 0
    /\ game_over = FALSE
    /\ paused = FALSE
    /\ next_spawn_at = 0
    /\ completed = 0
    /\ credited = <<>>
    /\ paused_frames = 0
    /\ \E code \in SpacingCodes : last = SpacingStart(code)
    /\ XInit

\* spawner.maybe_spawn(now, zombies, level) of waz.py, or
\* spawner.maybe_spawn(now, zombies, level, brains) of spawner.py
SpacingCall ==
    /\ IF last.code = "waz.py"
       THEN MaybeSpawn(now, zombies, level)
       ELSE OccMaybeSpawn(now, zombies, level, brains)
    /\ LET n == Len(zombies') - Len(zombies) IN
       last' = [last EXCEPT
                  !.first_call = IF @ = None THEN Some(now) ELSE @,
                  !.was_first = last.first_call = None,
                  !.spawned = n,
                  !.first_created = IF n > 0 /\ @ = None THEN Some(now) ELSE @,
                  !.created = IF n > 0 THEN Some(now) ELSE @,
                  !.gap = IF n > 0 /\ last.created # None
                          THEN Some(now - Val(last.created))
                          ELSE @]
    /\ UNCHANGED <<now, pc, hits, misses, lives, level, zombies_killed,
                   game_over, paused, completed, credited, paused_frames>>
    /\ UNCHANGED <<zvars, xvars>>

\* The clock moves on
SpacingAdvance ==
    /\ \E d \in SpacingSteps : now + d <= MaxSpacingNow /\ now' = now + d
    /\ UNCHANGED <<pc, zombies, hits, misses, lives, level, zombies_killed,
                   game_over, paused, next_spawn_at, completed, credited,
                   paused_frames, last>>
    /\ UNCHANGED <<zvars, xvars>>

\* The game drops a zombie that has died from the list
SpacingGone ==
    /\ \E i \in DOMAIN zombies :
          zombies' = SubSeq(zombies, 1, i - 1) \o
                     SubSeq(zombies, i + 1, Len(zombies))
    /\ UNCHANGED <<now, pc, hits, misses, lives, level, zombies_killed,
                   game_over, paused, next_spawn_at, completed, credited,
                   paused_frames, last>>
    /\ UNCHANGED <<zvars, xvars>>

\* Game.reset_game (waz.py)
SpacingReset ==
    /\ last.code = "waz.py"
    /\ last.resets < MaxSpacingResets
    /\ ResetGame
    /\ last' = [last EXCEPT !.first_call = None, !.first_created = None,
                            !.spawned = 0, !.was_first = FALSE,
                            !.resets = @ + 1]
    /\ UNCHANGED <<now, pc, paused, paused_frames>>
    /\ UNCHANGED <<zvars, xvars>>

NextSpacing == SpacingCall \/ SpacingAdvance \/ SpacingGone \/ SpacingReset

SpecSpacing == InitSpacing /\ [][NextSpacing]_vars

\* C29: spawns are at least the 200 ms floor apart: the first maybe_spawn
\* call after construction or reset creates nothing, the first zombie after
\* it is created no earlier than 200 ms after that call, no call creates
\* more than one zombie, and two consecutive creations are at least 200 ms
\* apart.
C29_SpawnsSpaced ==
    /\ last.was_first => last.spawned = 0
    /\ last.first_created # None =>
          Val(last.first_created) - Val(last.first_call) >= SPAWN_FLOOR_MS
    /\ last.spawned <= 1
    /\ last.gap # None => Val(last.gap) >= SPAWN_FLOOR_MS

\* The first zombie was created exactly the floor after the first call, and
\* the latest one exactly the floor after the one before it
C29_Witness ==
    /\ last.kind = "spacing"
    /\ last.spawned = 1
    /\ last.first_created # None
    /\ Val(last.first_created) - Val(last.first_call) = SPAWN_FLOOR_MS
    /\ last.gap = Some(SPAWN_FLOOR_MS)

-----------------------------------------------------------------------------
(* SpecClicks: the click counters of the two games.  The game that runs is  *)
(* drawn at the start: the waz.py loop (pc "top" / "events") or the main.py *)
(* loop (pc "main")                                                         *)

InitClicks ==
    /\ z = NewZombie(1, 0, 0)
    /\ clock = 0
    /\ op = "new"
    /\ ret = FALSE
    /\ trues = 0
    /\ now = 0
    /\ pc \in {"top", "main"}
    /\ zombies = <<>>
    /\ hits = 0
    /\ misses = 0
    /\ lives = INITIAL_LIVES
    /\ level = 1
    /\ zombies_killed = 0
    /\ game_over = FALSE
    /\ paused = FALSE
    /\ next_spawn_at = 0
    /\ completed = 0
    /\ credited = <<>>
    /\ paused_frames = 0
    /\ last = [kind |-> "other"]
    /\ XInit

\* One iteration of main.py's `while loop`
ClicksMainFrame == pc = "main" /\ MainFrame

\* The restart click of main.py's end screen
ClicksMainRestart == pc = "main" /\ MainRestart

NextClicks ==
    \/ SampleClock
    \/ LeftClick
    \/ KeyReset
    \/ KeyPause
    \/ UpdatePhase
    \/ ClicksMainFrame
    \/ ClicksMainRestart

SpecClicks == InitClicks /\ [][NextClicks]_vars

\* C30: in waz.py a left click handled while the game runs adds exactly 1 to
\* exactly one of hits and misses, a reset sets both to 0, and no other step
\* (a click while paused among them) changes either, so that hits + misses
\* counts the clicks handled since the last reset; in main.py total_shots =
\* hits + misses after every iteration, an iteration adds at most 1 to it,
\* and an iteration begun and ended paused adds nothing.
C30_ClicksCounted ==
    [][/\ last'.kind = "click" =>
             /\ ~paused /\ ~game_over
             /\ \/ hits' = hits + 1 /\ misses' = misses /\ last'.hit
                \/ hits' = hits /\ misses' = misses + 1 /\ ~last'.hit
       /\ last'.kind = "reset" => hits' = 0 /\ misses' = 0
       /\ last'.kind \notin {"click", "reset"} =>
             hits' = hits /\ misses' = misses
       /\ main'.total_shots = main'.hits + main'.misses
       /\ main.brains > 0 =>
             /\ main'.total_shots - main.total_shots \in {0, 1}
             /\ main'.hits >= main.hits
             /\ main'.misses >= main.misses
             /\ (main.paused /\ main'.paused) =>
                   main'.total_shots = main.total_shots
      ]_vars

\* waz.py has counted a hit and then a miss
C30_Witness ==
    /\ last.kind = "click"
    /\ ~last.hit
    /\ hits > 0
    /\ misses > 0

-----------------------------------------------------------------------------
(* SpecLevel: the waz.py game loop picked up after a number of kills, one   *)
(* kill away from a level threshold and from the last level                 *)

\* zombies_killed (= hits) when the run is picked up
LevelKills == {0, ZOMBIES_PER_LEVEL - 1,
               (MAX_LEVEL - 1) * ZOMBIES_PER_LEVEL - 1,
               MAX_LEVEL * ZOMBIES_PER_LEVEL - 1}
\* Left clicks handled between two resets, after the initial state
MaxLevelClicks == 2

\* The clicks handled since the run was picked up or reset
LevelClicks ==
    LET start == CHOOSE k \in LevelKills :
                    /\ k <= zombies_killed
                    /\ \A k2 \in LevelKills : k2 <= zombies_killed => k2 <= k
    IN  hits + misses - start

InitLevel ==
    /\ z = NewZombie(1, 0, 0)
    /\ clock = 0
    /\ op = "new"
    /\ ret = FALSE
    /\ trues = 0
    /\ now = 0
    /\ pc = "top"
    /\ zombies = <<>>
    /\ \E k \in LevelKills :
        /\ hits = k
        /\ zombies_killed = k
        /\ level = Min(MAX_LEVEL, (k \div ZOMBIES_PER_LEVEL) + 1)
    /\ misses = 0
    /\ lives = INITIAL_LIVES
    /\ game_over = FALSE
    /\ paused = FALSE
    /\ next_spawn_at = 0
    /\ completed = 0
    /\ credited = <<>>
    /\ paused_frames = 0
    /\ last = [kind |-> "other"]
    /\ XInit

\* MOUSEBUTTONDOWN, button 1
LevelLeftClick ==
    /\ pc = "events"
    /\ \/ /\ game_over
          /\ ResetGame
          /\ last' = [kind |-> "reset", over |-> TRUE,
                      clicks |-> hits + misses]
       \/ /\ ~game_over
          /\ ~paused
          /\ LevelClicks < MaxLevelClicks
          /\ \E pos \in ClickPoints : HandleClick(pos)
       \/ /\ ~game_over
          /\ paused
          /\ last' = [kind |-> "other"]
          /\ UNCHANGED <<zombies, hits, misses, lives, level, zombies_killed,
                         game_over, next_spawn_at, completed, credited>>
    /\ UNCHANGED <<now, pc, paused, paused_frames>>
    /\ UNCHANGED <<zvars, xvars>>

NextLevel ==
    LiveSampleClock \/ LevelLeftClick \/ KeyReset \/ KeyPause \/ UpdatePhase

SpecLevel == InitLevel /\ [][NextLevel]_vars

\* C31: in waz.py, when an iteration of the loop ends, level =
\* min(MAX_LEVEL, zombies_killed // ZOMBIES_PER_LEVEL + 1) and level is within
\* 1..MAX_LEVEL; no step lowers level except a reset.
C31_LevelFollowsKills ==
    [][/\ pc' = "top" =>
             /\ level' = Min(MAX_LEVEL, (zombies_killed' \div ZOMBIES_PER_LEVEL) + 1)
             /\ level' \in 1..MAX_LEVEL
       /\ level' < level => last'.kind = "reset"
      ]_vars

\* An iteration has ended with more kills than the last level asks for
C31_Witness ==
    /\ pc = "top"
    /\ zombies_killed >= MAX_LEVEL * ZOMBIES_PER_LEVEL
    /\ level = MAX_LEVEL

-----------------------------------------------------------------------------
(* Further claims about the main.py game loop (SpecMain) *)

\* C33: in main.py no two zombies of the list are on the same grave index,
\* whatever their status, the list never holds more than ZOM_NUM_MAX zombies,
\* and zombie_count is the length of the list.
C33_GravesExclusive ==
    /\ \A i, j \in DOMAIN main.zombie :
          i # j => main.zombie[i].index # main.zombie[j].index
    /\ Len(main.zombie) <= ZOM_NUM_MAX
    /\ main.zombie_count = Len(main.zombie)

\* The list is full and one of its zombies is dying or escaping
C33_Witness ==
    /\ Len(main.zombie) = ZOM_NUM_MAX
    /\ main.zombie_count = ZOM_NUM_MAX
    /\ \E i \in DOMAIN main.zombie : main.zombie[i].zombieStatus \in {2, 3}

-----------------------------------------------------------------------------
(* SpecHealth: the main.py loop picked up after a number of hits, at the    *)
(* levels where cone (health 2) and bucket (health 3) zombies appear        *)

\* self.hits (= kills = total_shots) when the run is picked up: levels 1, 3
\* and 5
HealthHits == {0, 2 * LEVEL_UP_GAP, 4 * LEVEL_UP_GAP}
\* gameTime per hit so far, and the time since the last spawn, at the pick-up
HealthMsPerHit == 10000
HealthSinceSpawn == 4000
\* Frame durations, clicks and gameTime after the pick-up
HealthSecs == {500}
MaxHealthClicks == 3
MaxHealthTime == 6000
\* The values generateZombie's random.randint is taken to return
HealthSpawnIndexes == {0, 1}

\* The game after h hits that each killed a one-hit zombie, no zombie having
\* attacked, the list empty since HealthSinceSpawn
HealthStart(h) ==
    IF h = 0 THEN MainStart
    ELSE [MainStart EXCEPT
            !.hits = h, !.kills = h, !.total_shots = h,
            !.level = GetPlayerLevel(h),
            !.brains = MAIN_BRAINS + (h \div LEVEL_UP_GAP),
            !.maxStayTime = GetStayTime(GetPlayerLevel(h)),
            !.respawnTime = GetRespawnTime(GetPlayerLevel(h)),
            !.gameTime = h * HealthMsPerHit,
            !.lastSpawnTime = h * HealthMsPerHit - HealthSinceSpawn]

\* The pick-up the run started from
HealthOrigin ==
    HealthStart(CHOOSE h \in HealthHits :
                   /\ h <= main.total_shots
                   /\ \A h2 \in HealthHits : h2 <= main.total_shots => h2 <= h)

InitHealth ==
    /\ z = NewZombie(1, 0, 0)
    /\ clock = 0
    /\ op = "new"
    /\ ret = FALSE
    /\ trues = 0
    /\ GameInit
    /\ brains = <<>>
    /\ next_brain_check_at = 0
    /\ \E h \in HealthHits : main = HealthStart(h)
    /\ log_file = <<>>

\* One iteration of `while loop` with self.brains > 0 and no P key.
\* History: last.target is the zombie isZombieHit returned, as it was before
\* hit_zombie, last.result the same zombie right after it, last.hits and
\* last.kills what the event added to self.hits and self.kills
HealthFrame ==
    /\ main.brains > 0
    /\ \E ev \in MainEvents(main.zombie) \ {[kind |-> "key_p"]},
          sec \in HealthSecs :
        /\ ev.kind = "click" =>
              main.total_shots - HealthOrigin.total_shots < MaxHealthClicks
        /\ \E m1 \in {MainHandleEvent(main, ev)} :
           \E st \in {ZombieLoop([zombie |-> m1.zombie,
                                  zombie_count |-> m1.zombie_count,
                                  isEaten |-> FALSE, attacks |-> 0],
                                 1, sec, m1.maxStayTime)} :
           LET gameTime == m1.gameTime + sec
               due == ~m1.paused /\ gameTime - m1.lastSpawnTime > m1.respawnTime
               hitPos == IF ev.kind = "click"
                         THEN IsZombieHit(SubSeq(main.zombie, 1, main.zombie_count),
                                          ev.grave)
                         ELSE 0
           IN
           /\ gameTime - HealthOrigin.gameTime <= MaxHealthTime
           /\ \E spawnIndex \in IF due THEN HealthSpawnIndexes ELSE {0},
                 zombie_type \in IF due THEN ZombieTypesForLevel(m1.level)
                                        ELSE {0} :
                \E gen \in {IF due
                             THEN GenerateZombie(st.zombie_count,
                                                 UpdateSprite(st.zombie),
                                                 spawnIndex, zombie_type)
                             ELSE [zombie |-> UpdateSprite(st.zombie),
                                   zombie_count |-> st.zombie_count,
                                   made |-> 0]} :
                main' = [m1 EXCEPT !.gameTime = gameTime,
                                   !.zombie = gen.zombie,
                                   !.zombie_count = gen.zombie_count,
                                   !.brains = UpdateBrain(m1.brains, st.isEaten),
                                   !.lastSpawnTime = IF gen.made = 1
                                                     THEN gameTime ELSE @]
           /\ last' = [kind |-> "health_frame",
                       target |-> IF hitPos # 0 THEN Some(main.zombie[hitPos])
                                  ELSE None,
                       result |-> IF hitPos # 0 THEN Some(m1.zombie[hitPos])
                                  ELSE None,
                       hits |-> m1.hits - main.hits,
                       kills |-> m1.kills - main.kills]
    /\ UNCHANGED MainUnused

NextHealth == HealthFrame

SpecHealth == InitHealth /\ [][NextHealth]_vars

\* C34: in main.py every zombie has 0 <= current_health <= max_health and is
\* in the dying status (2) exactly when current_health is 0; a hit is accepted
\* only on a zombie in status 0 with animationIndex > SPAWN_ANI_INDEX_MAX,
\* takes exactly 1 from its current_health and adds 1 to hits; kills grows by
\* 1 exactly when that hit brings current_health to 0 (so a zombie of
\* max_health h is killed by its h-th accepted hit) and kills <= hits.
C34_KilledByLastHit ==
    /\ \A i \in DOMAIN main.zombie :
          /\ main.zombie[i].current_health \in 0..main.zombie[i].max_health
          /\ main.zombie[i].zombieStatus = 2 <=> main.zombie[i].current_health = 0
    /\ main.kills <= main.hits
    /\ last.kind = "health_frame" =>
          IF last.target = None
          THEN last.hits = 0 /\ last.kills = 0
          ELSE /\ Val(last.target).zombieStatus = 0
               /\ Val(last.target).animationIndex > SPAWN_ANI_INDEX_MAX
               /\ Val(last.result).current_health =
                     Val(last.target).current_health - 1
               /\ Val(last.result).zombieStatus = 2 <=>
                     Val(last.result).current_health = 0
               /\ last.hits = 1
               /\ last.kills = (IF Val(last.result).current_health = 0
                                THEN 1 ELSE 0)

\* A bucket zombie (max_health 3) has just been killed by its third hit
C34_Witness ==
    /\ last.kind = "health_frame"
    /\ last.target # None
    /\ Val(last.target).max_health = 3
    /\ Val(last.target).current_health = 1
    /\ Val(last.result).zombieStatus = 2
    /\ last.kills = 1

\* ---------------------------------------------------------------------------
\* The main.py loop with the events of an iteration taken as a batch
\* (SpecBatch): `for event in pygame.event.get()` handles every event queued
\* since the last iteration, in order, before the time step
\* ---------------------------------------------------------------------------

\* Hits so far at the pick-up, and the attacks completed before it
BatchHits == {2 * LEVEL_UP_GAP}
BatchAttacks == {MAIN_BRAINS}
\* Frame durations, clicks and gameTime after the pick-up or restart
BatchSecs == {1500}
MaxBatchClicks == 2
MaxBatchTime == 24000

\* The game after h one-hit kills and a completed attacks
BatchStart(h, a) == [HealthStart(h) EXCEPT !.brains = @ - a]

InitBatch ==
    /\ z = NewZombie(1, 0, 0)
    /\ clock = 0
    /\ op = "new"
    /\ ret = FALSE
    /\ trues = 0
    /\ GameInit
    /\ brains = <<>>
    /\ next_brain_check_at = 0
    /\ \E h \in BatchHits, a \in BatchAttacks : main = BatchStart(h, a)
    /\ log_file = <<>>

\* One iteration of `while loop` with self.brains > 0 and up to two events
\* in the queue (e1 first; e2 is "none" when the queue held fewer)
BatchFrame ==
    /\ main.brains > 0
    /\ \E e1 \in MainEvents(main.zombie), mil \in BatchSecs :
       \E m1 \in {MainHandleEvent(main, e1)} :
       \E e2 \in IF e1.kind = "none" THEN {e1} ELSE MainEvents(m1.zombie) :
       \E m2 \in {MainHandleEvent(m1, e2)} :
       \E sec \in {IF m2.paused THEN 0 ELSE mil} :
       \E st \in {ZombieLoop([zombie |-> m2.zombie,
                              zombie_count |-> m2.zombie_count,
                              isEaten |-> FALSE, attacks |-> 0],
                             1, sec, m2.maxStayTime)} :
           LET gameTime == m2.gameTime + sec
               due == ~m2.paused /\ gameTime - m2.lastSpawnTime > m2.respawnTime
           IN
           /\ m2.total_shots - HealthOrigin.total_shots <= MaxBatchClicks
           /\ gameTime - HealthOrigin.gameTime <= MaxBatchTime
           /\ \E spawnIndex \in IF due THEN HealthSpawnIndexes ELSE {0},
                 zombie_type \in IF due THEN ZombieTypesForLevel(m2.level)
                                        ELSE {0} :
                \E gen \in {IF due
                             THEN GenerateZombie(st.zombie_count,
                                                 UpdateSprite(st.zombie),
                                                 spawnIndex, zombie_type)
                             ELSE [zombie |-> UpdateSprite(st.zombie),
                                   zombie_count |-> st.zombie_count,
                                   made |-> 0]} :
                main' = [m2 EXCEPT !.gameTime = gameTime,
                                   !.zombie = gen.zombie,
                                   !.zombie_count = gen.zombie_count,
                                   !.brains = UpdateBrain(m2.brains, st.isEaten),
                                   !.lastSpawnTime = IF gen.made = 1
                                                     THEN gameTime ELSE @]
           /\ last' = [kind |-> "other"]
    /\ UNCHANGED MainUnused

NextBatch ==
    \/ BatchFrame
    \/ MainRestart

SpecBatch == InitBatch /\ [][NextBatch]_vars

\* The status of a zombie before and after an iteration of the loop
StatusSteps == {<<0, 0>>, <<0, 1>>, <<0, 2>>, <<1, 1>>, <<1, 3>>, <<2, 2>>,
                <<3, 3>>}

\* C35: in main.py, over every iteration of a running game (self.brains > 0),
\* each zombie that stays in the list keeps its status or goes rising(0) ->
\* attacking(1), rising(0) -> dying(2) or attacking(1) -> escaping(3), so that
\* a dying or escaping zombie never returns to rising or attacking; a zombie
\* that was not rising at the start of the iteration keeps its
\* current_health (an attacking zombie is never hit); a zombie leaves the
\* list only from status 2 or 3; a zombie enters the list in status 0.
C35_StatusTransitions ==
    [][main.brains > 0 =>
         LET spawned == main'.lastSpawnTime # main.lastSpawnTime
             kept == Len(main'.zombie) - (IF spawned THEN 1 ELSE 0)
         IN
         /\ \A j \in 1..kept :
               \E i \in DOMAIN main.zombie :
                  /\ main.zombie[i].index = main'.zombie[j].index
                  /\ <<main.zombie[i].zombieStatus,
                       main'.zombie[j].zombieStatus>> \in StatusSteps
                  /\ main.zombie[i].zombieStatus # 0 =>
                        main'.zombie[j].current_health =
                           main.zombie[i].current_health
         /\ \A i \in DOMAIN main.zombie :
               (\A j \in 1..kept :
                   main'.zombie[j].index # main.zombie[i].index) =>
                  main.zombie[i].zombieStatus \in {2, 3}
         /\ spawned => main'.zombie[Len(main'.zombie)].zombieStatus = 0
      ]_vars

\* A zombie is escaping after its attack next to a rising zombie that has
\* survived a hit
C35_Witness ==
    /\ main.brains > 0
    /\ \E i \in DOMAIN main.zombie :
          /\ main.zombie[i].zombieStatus = 3
          /\ main.zombie[i].animationIndex < 0
    /\ \E j \in DOMAIN main.zombie :
          /\ main.zombie[j].zombieStatus = 0
          /\ main.zombie[j].current_health < main.zombie[j].max_health

\* C36: in main.py every iteration of a running game whose time step runs
\* with self.paused = True, whatever events were queued and in whatever order,
\* leaves every zombie as it was (status, animation index and timers), spawns
\* and removes no zombie, leaves gameTime where it was and changes no click
\* counter.
C36_PausedFreezes ==
    [][(main.brains > 0 /\ main'.paused) =>
          /\ main'.zombie = main.zombie
          /\ main'.zombie_count = main.zombie_count
          /\ main'.gameTime = main.gameTime
          /\ main'.lastSpawnTime = main.lastSpawnTime
          /\ main'.total_shots = main.total_shots
          /\ main'.hits = main.hits
          /\ main'.misses = main.misses
          /\ main'.kills = main.kills
      ]_vars

====
